---- MODULE Spec2Model ----
(***************************************************************************)
(* A model of src/deep_learning.py: the phase scheduler (Network.f_phase,  *)
(* Network.t_phase), the layers' per-timestep updates and running         *)
(* averages, the burst-gated weight updates, Network.train's example loop  *)
(* and Network.test_weights.                                               *)
(*                                                                         *)
(* Numeric values are abstracted to their provenance.  A value computed   *)
(* or drawn in a timestep is a stamp [run, ex, ph, t] naming that          *)
(* timestep (training or test run, example index, phase, loop index); the *)
(* zero a numpy array is created with, or reset to by "*= 0", is Z.  The   *)
(* mean of a ring buffer is the set of its entries.  A weight row is the   *)
(* number of "+=" writes it has received.                                  *)
(*                                                                         *)
(* The time constants keep the order they have in the source               *)
(* (mem < integration_time <= l_t_phase - 1 - MaxBurstDelay,                *)
(* l_f_phase_test > l_f_phase, n_quick_test < n_full_test = the test set)  *)
(* but are smaller, so that a phase is a few timesteps long.               *)
(***************************************************************************)
EXTENDS Integers, Sequences, FiniteSets, TLC

\* ----------------------------------------------------------------------
\* Program constants (src/deep_learning.py), scaled down
\* ----------------------------------------------------------------------
M == 2
    \* number of layers: one hiddenLayer, one finalLayer
mem == 2
    \* spike memory, int(10/dt)
integration_time == 3
    \* length of the ring buffers, int(20/dt)
min_l_f_phase == 5
    \* l_f_phase as the module sets it, int(50/dt)
min_l_t_phase == 5
    \* l_t_phase as the module sets it, int(50/dt)
l_f_phase_test == 6
    \* int(250/dt)
MaxBurstDelay == 1
    \* the 15 of np.minimum(..., 15) in the burst times
QuickEvery == 2
    \* the 1000 of "(n+1) % 1000 == 0"
n_full_test == 2
n_quick_test == 1

\* number of columns of x_test: the test set has as many examples as a full test uses
\* phi_max = 0.2*dt spikes per timestep, in tenths
phi_max == 2
n_categories == 3
    \* the 10 of int(self.n[-1]/10) and np.arange(10), scaled
NTestSet == n_full_test

\* Layer.size of each layer: self.net.n[m]
size == <<1, 2>>

\* the signalling options, as the module sets them
use_broadcast == TRUE
use_spiking_feedback == TRUE
use_spiking_feedforward == TRUE

\* ----------------------------------------------------------------------
\* Bounds of the model
\* ----------------------------------------------------------------------
MaxWald == 1
    \* np.random.wald(2, 1).astype(int) is drawn from 0..MaxWald
MaxNormal == 2
    \* abs(np.random.normal(0, 5).astype(int)) is drawn from 0..MaxNormal
MaxEpochs == 1
MaxExamples == 3
MaxCalls == 2
MaxPerCategory == 2
    \* n_neurons_per_category is drawn from 1..MaxPerCategory
    \* calls of test_weights from outside train
MaxLayers == 3
    \* Network(n) is given 2..MaxLayers layer sizes
MaxSize == 3
    \* each of them from 1..MaxSize
MaxPairExamples == 2
    \* training examples the two compared runs go through
MaxRecEpochs == 2
MaxRecExamples == 6
    \* n_epochs and n_training_examples of the runs whose recordings are followed

VARIABLES
    cfg,            \* the module-level options that vary: a record of booleans
    pc,             \* position in train / test_weights / f_phase / t_phase
    caller,         \* where the running test_weights returns to
    n_epochs, n_training_examples,
    k, n, time,     \* loop indices: epoch, training example, timestep
    testing,        \* inside test_weights
    n_test, tn,     \* test_weights: its argument, its loop index
    num_correct, err_rate,
    l_f_phase, l_t_phase, old_l_f_phase,
    burst_times,    \* burst_times[m][n] of the current example: layer -> unit -> time
    x_hist, old_x_hist,
    l, old_l,       \* self.l and copy.copy(self.l): lists of layer objects (ids)
    layer,          \* the layer objects: id -> fields
    W, b, Y, c,     \* W[m][i], b[m][i]: writes to row i; Y[m], c[m]: writes to the array
    x_test,         \* the order of the columns of x_test / t_test
    x,              \* self.x: the current example
    seed_perm,      \* the permutation np.random.permutation yields from the seeded state
    oracle,         \* whether the network classifies test example e correctly
    calls, evald, errs,  \* outside calls of test_weights: count, examples evaluated, results
    snap,           \* the layer fields and input history on entry to test_weights,
                    \* kept until the caller goes on
    readout,        \* the numbers test_weights classifies an example by
    last_epoch,     \* self.last_epoch: None or the last completed epoch
    save_simulation, overwrite,  \* arguments of the running train
    disk,           \* the simulation directory: whether it exists, its files
    store,          \* the weight files save_weights wrote and the network built afterwards
    globals,        \* the module's globals in effect and the manifest simulation.json
    sparse,         \* Y_dropout_indices, the entries of Y[0], and Y[0] in the weight files
    shapes,         \* the layer sizes given to Network(n) and the array shapes made from them
    pair,           \* two runs of one example that differ in the target only
    rec             \* the recording arrays of train, with the loop position they are filled at

vars == <<cfg, pc, caller, n_epochs, n_training_examples, k, n, time, testing,
          n_test, tn, num_correct, err_rate, l_f_phase, l_t_phase, old_l_f_phase,
          burst_times, x_hist, old_x_hist, l, old_l, layer, W, b, Y, c, x_test, x,
          seed_perm, oracle, calls, evald, errs, snap, readout,
          last_epoch, save_simulation, overwrite, disk, store, globals, sparse, shapes, pair, rec>>

\* self.last_epoch = None (line 157): no epoch number
None == -2

sim_vars == <<last_epoch, save_simulation, overwrite, disk, store, globals, sparse, shapes, pair, rec>>

weights == <<W, b, Y, c>>

\* ----------------------------------------------------------------------
\* Values
\* ----------------------------------------------------------------------
Stamp(run, ex, ph, t) == [run |-> run, ex |-> ex, ph |-> ph, t |-> t]

\* the entries of np.zeros(...), and of an array after "*= 0"
Z == Stamp("zero", 0, "-", 0)

ZeroHist(len) == [i \in 1..len |-> Z]

\* a PSP computed from an all-zero history
ZP == ZeroHist(mem)

ZeroPSPHist(len) == [i \in 1..len |-> ZP]

\* np.mean(hist, axis=-1): one contribution from every column of the buffer
Mean(hist) == {hist[i] : i \in 1..Len(hist)}

ZeroAvg == {Z}
ZeroPSPAvg == {ZP}

\* a field the layer class does not have
NoAvg == {}
NoHist == <<>>

\* np.dot(input, kappas): the filtered history, or the rate itself
PSP(input, spiking) == IF spiking THEN input ELSE <<input>>

\* np.concatenate([hist[:, 1:], draw], axis=-1)
Push(hist, draw) == Append(Tail(hist), draw)

\* a ring buffer indexed modulo mem instead of integration_time: the variant C8
\* is checked against
RingPut_mem(hist, ic, v) == [hist EXCEPT ![(ic % mem) + 1] = v]

\* hist[:, integration_counter % integration_time] = v
RingPut(hist, ic, v) == [hist EXCEPT ![(ic % integration_time) + 1] = v]

Perms(S) == {p \in [1..Cardinality(S) -> S] : \A i, j \in 1..Cardinality(S) : p[i] = p[j] => i = j}

\* shuffle_arrays: a[:, p]
shuffle_arrays(a, p) == [i \in 1..Len(a) |-> a[p[i]]]

\* ----------------------------------------------------------------------
\* Layers
\* ----------------------------------------------------------------------

\* hiddenLayer.__init__
hiddenLayer_init(ubw) ==
    [kind |-> "hidden",
     A |-> Z, B |-> Z, C |-> Z, I |-> Z, phi_C |-> Z,
     S_hist     |-> ZeroHist(mem),
     A_hist     |-> ZeroHist(integration_time),
     PSP_A_hist |-> ZeroPSPHist(integration_time),
     PSP_B_hist |-> ZeroPSPHist(integration_time),
     C_hist     |-> ZeroHist(integration_time),
     phi_C_hist |-> ZeroHist(integration_time),
     delta_W |-> Z, delta_Y |-> Z, delta_b |-> Z,
     average_C_f     |-> ZeroAvg,
     average_C_t     |-> ZeroAvg,
     average_A_f     |-> ZeroAvg,
     average_A_t     |-> ZeroAvg,
     average_phi_C_f |-> ZeroAvg,
     average_phi_C_t |-> NoAvg,
     average_PSP_B_f |-> ZeroPSPAvg,
     average_PSP_B_t |-> ZeroPSPAvg,
     integration_counter |-> 0,
     average_PSP_A_f |-> IF ubw THEN ZeroPSPAvg ELSE NoAvg,
     average_PSP_A_t |-> IF ubw THEN ZeroPSPAvg ELSE NoAvg]

\* finalLayer.__init__
finalLayer_init ==
    [kind |-> "final",
     A |-> Z, B |-> Z, C |-> Z, I |-> Z, phi_C |-> Z,
     S_hist     |-> ZeroHist(mem),
     A_hist     |-> NoHist,
     PSP_A_hist |-> NoHist,
     PSP_B_hist |-> ZeroPSPHist(integration_time),
     C_hist     |-> ZeroHist(integration_time),
     phi_C_hist |-> ZeroHist(integration_time),
     delta_W |-> Z, delta_Y |-> Z, delta_b |-> Z,
     average_C_f     |-> ZeroAvg,
     average_C_t     |-> ZeroAvg,
     average_A_f     |-> NoAvg,
     average_A_t     |-> NoAvg,
     average_phi_C_f |-> ZeroAvg,
     average_phi_C_t |-> ZeroAvg,
     average_PSP_B_f |-> ZeroPSPAvg,
     average_PSP_B_t |-> ZeroPSPAvg,
     integration_counter |-> 0,
     average_PSP_A_f |-> NoAvg,
     average_PSP_A_t |-> NoAvg]

\* a clear_vars that leaves the forward averages alone: the variant C9 is
\* checked against
hiddenLayer_clear_vars_partial(L, ubw) ==
    [L EXCEPT
     !.A = Z, !.B = Z, !.C = Z, !.phi_C = Z,
     !.S_hist     = ZeroHist(mem),
     !.A_hist     = ZeroHist(integration_time),
     !.PSP_A_hist = ZeroPSPHist(integration_time),
     !.PSP_B_hist = ZeroPSPHist(integration_time),
     !.C_hist     = ZeroHist(integration_time),
     !.phi_C_hist = ZeroHist(integration_time),
     !.delta_W = Z, !.delta_Y = Z, !.delta_b = Z,
     !.average_C_t     = ZeroAvg,
     !.average_A_t     = ZeroAvg,
     !.average_PSP_B_t = ZeroPSPAvg,
     !.integration_counter = 0,
     !.average_PSP_A_t = IF ubw THEN ZeroPSPAvg ELSE @]

\* hiddenLayer.clear_vars
hiddenLayer_clear_vars(L, ubw) ==
    [L EXCEPT
     !.A = Z, !.B = Z, !.C = Z, !.phi_C = Z,
     !.S_hist     = ZeroHist(mem),
     !.A_hist     = ZeroHist(integration_time),
     !.PSP_A_hist = ZeroPSPHist(integration_time),
     !.PSP_B_hist = ZeroPSPHist(integration_time),
     !.C_hist     = ZeroHist(integration_time),
     !.phi_C_hist = ZeroHist(integration_time),
     !.delta_W = Z, !.delta_Y = Z, !.delta_b = Z,
     !.average_C_f     = ZeroAvg,
     !.average_C_t     = ZeroAvg,
     !.average_A_f     = ZeroAvg,
     !.average_A_t     = ZeroAvg,
     !.average_phi_C_f = ZeroAvg,
     !.average_PSP_B_f = ZeroPSPAvg,
     !.average_PSP_B_t = ZeroPSPAvg,
     !.integration_counter = 0,
     !.average_PSP_A_f = IF ubw THEN ZeroPSPAvg ELSE @,
     !.average_PSP_A_t = IF ubw THEN ZeroPSPAvg ELSE @]

\* finalLayer.clear_vars: the three ring buffers are not among the fields it zeroes
finalLayer_clear_vars(L) ==
    [L EXCEPT
     !.B = Z, !.I = Z, !.C = Z, !.phi_C = Z,
     !.S_hist = ZeroHist(mem),
     !.delta_W = Z, !.delta_b = Z,
     !.average_C_f     = ZeroAvg,
     !.average_C_t     = ZeroAvg,
     !.average_phi_C_f = ZeroAvg,
     !.average_phi_C_t = ZeroAvg,
     !.average_PSP_B_f = ZeroPSPAvg,
     !.average_PSP_B_t = ZeroPSPAvg,
     !.integration_counter = 0]

clear_vars(L, ubw) ==
    IF L.kind = "hidden" THEN hiddenLayer_clear_vars(L, ubw) ELSE finalLayer_clear_vars(L)

\* update_B: the PSP of the forward input goes into the ring buffer; B = W.PSP_B + b
update_B(L, f_input, now) ==
    [L EXCEPT
     !.PSP_B_hist = RingPut(@, L.integration_counter, PSP(f_input, use_spiking_feedforward)),
     !.B = now]

\* hiddenLayer.update_A
update_A(L, b_input, now) ==
    [L EXCEPT
     !.PSP_A_hist = RingPut(@, L.integration_counter, PSP(b_input, use_spiking_feedback)),
     !.A = now,
     !.A_hist = RingPut(@, L.integration_counter, now)]

\* finalLayer.update_I: no input in the forward phase, the target in the target phase
update_I(L, has_input, now) ==
    [L EXCEPT !.I = IF has_input THEN now ELSE Z]

\* update_C: the new somatic potential and rate go into the ring buffers
update_C(L, now) ==
    [L EXCEPT
     !.C = now,
     !.C_hist = RingPut(@, L.integration_counter, now),
     !.phi_C = now,
     !.phi_C_hist = RingPut(@, L.integration_counter, now)]

\* a spike that drops the newest column instead of the oldest: the variant C10
\* is checked against
spike_drop_newest(L, now) ==
    [L EXCEPT !.S_hist = Append(SubSeq(@, 1, mem - 1), now)]

\* spike: S_hist = np.concatenate([S_hist[:, 1:], np.random.poisson(phi_C)], axis=-1)
spike(L, now) ==
    [L EXCEPT !.S_hist = Push(@, now)]

\* self.integration_counter = (self.integration_counter + 1) % integration_time
count(L) ==
    [L EXCEPT !.integration_counter = (@ + 1) % integration_time]

\* hiddenLayer.out_f, "if calc_averages:"
hidden_averages_f(L, ubw) ==
    [L EXCEPT
     !.average_C_f     = Mean(L.C_hist),
     !.average_A_f     = Mean(L.A_hist),
     !.average_phi_C_f = Mean(L.phi_C_hist),
     !.average_PSP_B_f = Mean(L.PSP_B_hist),
     !.average_PSP_A_f = IF ubw THEN Mean(L.PSP_A_hist) ELSE @]

\* hiddenLayer.out_t, "if calc_averages:"
hidden_averages_t(L, ubw) ==
    [L EXCEPT
     !.average_C_t     = Mean(L.C_hist),
     !.average_A_t     = Mean(L.A_hist),
     !.average_PSP_B_t = Mean(L.PSP_B_hist),
     !.average_PSP_A_t = IF ubw THEN Mean(L.PSP_A_hist) ELSE @]

\* finalLayer.out_f, "if calc_averages:"
final_averages_f(L) ==
    [L EXCEPT
     !.average_C_f     = Mean(L.C_hist),
     !.average_phi_C_f = Mean(L.phi_C_hist),
     !.average_PSP_B_f = Mean(L.PSP_B_hist)]

\* finalLayer.out_t, "if calc_averages:"
final_averages_t(L) ==
    [L EXCEPT
     !.average_C_t     = Mean(L.C_hist),
     !.average_phi_C_t = Mean(L.phi_C_hist),
     !.average_PSP_B_t = Mean(L.PSP_B_hist)]

\* hiddenLayer.out_f / out_t
hiddenLayer_out(L, ph, f_input, b_input, calc_averages, ubw, now) ==
    LET L1 == count(spike(update_C(update_A(update_B(L, f_input, now), b_input, now), now), now))
    IN  IF ~calc_averages THEN L1
        ELSE IF ph = "f" THEN hidden_averages_f(L1, ubw) ELSE hidden_averages_t(L1, ubw)

\* finalLayer.out_f / out_t
finalLayer_out(L, ph, f_input, calc_averages, now) ==
    LET L1 == count(spike(update_C(update_I(update_B(L, f_input, now), ph = "t", now), now), now))
    IN  IF ~calc_averages THEN L1
        ELSE IF ph = "f" THEN final_averages_f(L1) ELSE final_averages_t(L1)

\* a pass that updates the output layer first and gives layer 0 the output
\* layer's history with the draw of this timestep: the variant C21 is checked
\* against
Network_out_output_first(ls, hs, xh, xr, ph, calc_averages, ubw, now) ==
    LET hid == hs[ls[1]]
        fin == hs[ls[2]]
        f1  == finalLayer_out(fin, ph,
                   IF use_spiking_feedforward THEN hid.S_hist ELSE hid.phi_C,
                   calc_averages, now)
        h1  == hiddenLayer_out(hid, ph,
                   IF use_spiking_feedforward THEN xh ELSE xr,
                   IF use_spiking_feedback THEN f1.S_hist ELSE f1.phi_C,
                   calc_averages, ubw, now)
    IN  [o \in DOMAIN hs |-> IF o = ls[1] THEN h1 ELSE IF o = ls[2] THEN f1 ELSE hs[o]]

\* a pass in which the output layer takes layer 0's history as it was before
\* layer 0's update of this timestep: the variant C20 is checked against
Network_out_stale(ls, hs, xh, xr, ph, calc_averages, ubw, now) ==
    LET hid == hs[ls[1]]
        fin == hs[ls[2]]
        h1  == hiddenLayer_out(hid, ph,
                   IF use_spiking_feedforward THEN xh ELSE xr,
                   IF use_spiking_feedback THEN fin.S_hist ELSE fin.phi_C,
                   calc_averages, ubw, now)
        f1  == finalLayer_out(fin, ph,
                   IF use_spiking_feedforward THEN hid.S_hist ELSE hid.phi_C,
                   calc_averages, now)
    IN  [o \in DOMAIN hs |-> IF o = ls[1] THEN h1 ELSE IF o = ls[2] THEN f1 ELSE hs[o]]

\* Network.out_f / out_t for M = 2: layer 0 takes the input history and, as
\* feedback, the output layer's spike history (its rate when feedback is not
\* spiking) as it is before the output layer is updated; then the output layer
\* takes layer 0's updated history
Network_out(ls, hs, xh, xr, ph, calc_averages, ubw, now) ==
    LET hid == hs[ls[1]]
        fin == hs[ls[2]]
        h1  == hiddenLayer_out(hid, ph,
                   IF use_spiking_feedforward THEN xh ELSE xr,
                   IF use_spiking_feedback THEN fin.S_hist ELSE fin.phi_C,
                   calc_averages, ubw, now)
        f1  == finalLayer_out(fin, ph,
                   IF use_spiking_feedforward THEN h1.S_hist ELSE h1.phi_C,
                   calc_averages, now)
    IN  [o \in DOMAIN hs |-> IF o = ls[1] THEN h1 ELSE IF o = ls[2] THEN f1 ELSE hs[o]]

\* a phase end that clears the whole layer, as test_weights does before a test
\* example: the variant C6 is checked against
reset_by_clear_vars(L, ubw) == clear_vars(L, ubw)

\* a reset that leaves out the hidden layer's apical averages: the variant C7 is
\* checked against
reset_averages_partial(L, ubw) ==
    [L EXCEPT
     !.average_C_f     = ZeroAvg,
     !.average_C_t     = ZeroAvg,
     !.average_PSP_B_f = ZeroPSPAvg,
     !.average_PSP_B_t = ZeroPSPAvg,
     !.average_phi_C_f = ZeroAvg,
     !.average_phi_C_t = IF L.kind = "final" THEN ZeroAvg ELSE @]

\* t_phase, "reset averages", for one layer
reset_averages(L, ubw) ==
    IF L.kind = "final"
    THEN [L EXCEPT
          !.average_C_f     = ZeroAvg,
          !.average_C_t     = ZeroAvg,
          !.average_PSP_B_f = ZeroPSPAvg,
          !.average_PSP_B_t = ZeroPSPAvg,
          !.average_phi_C_f = ZeroAvg,
          !.average_phi_C_t = ZeroAvg]
    ELSE [L EXCEPT
          !.average_C_f     = ZeroAvg,
          !.average_C_t     = ZeroAvg,
          !.average_PSP_B_f = ZeroPSPAvg,
          !.average_PSP_B_t = ZeroPSPAvg,
          !.average_A_f     = ZeroAvg,
          !.average_A_t     = ZeroAvg,
          !.average_phi_C_f = ZeroAvg,
          !.average_PSP_A_f = IF ubw THEN ZeroPSPAvg ELSE @,
          !.average_PSP_A_t = IF ubw THEN ZeroPSPAvg ELSE @]

\* update_W: E and the deltas are recomputed, the rows in burst_indices are written
update_W_layer(L, now) ==
    [L EXCEPT !.delta_W = now, !.delta_b = now]

\* the target-phase statistic of E: np.mean(self.A_hist, axis=-1) in a hidden
\* layer (line 1265), np.mean(self.phi_C_hist, axis=-1) in the output layer
\* (line 1414)
update_W_statistic(L) ==
    Mean(IF L.kind = "hidden" THEN L.A_hist ELSE L.phi_C_hist)

\* an update that ignores burst_indices and writes every row: the variant C2
\* is checked against
update_all_rows(rows, burst_indices) ==
    [i \in DOMAIN rows |-> rows[i] + 1]

\* W[m][burst_indices] += ..., b[m][burst_indices] += ...
update_rows(rows, burst_indices) ==
    [i \in DOMAIN rows |-> IF i \in burst_indices THEN rows[i] + 1 ELSE rows[i]]

\* a selection of every unit whose burst time has passed, not only those
\* bursting now: the variant C15 is checked against
burst_indices_upto(bt, t) == {i \in DOMAIN bt : bt[i] <= t}

\* np.nonzero(time == self.burst_times[m][training_example_index])
burst_indices_at(bt, t) == {i \in DOMAIN bt : bt[i] = t}

\* update_Y: Y[m] += -b_etas[m]*delta_Y[burst_indices] broadcasts only when
\* delta_Y[burst_indices] has one row or all the rows of Y[m]
update_Y_broadcasts(m, burst_indices) ==
    Cardinality(burst_indices) = 1 \/ Cardinality(burst_indices) = size[m]

\* ----------------------------------------------------------------------
\* State after construction (Network.__init__) and the module-level options
\* ----------------------------------------------------------------------
Options ==
    [use_rand_phase_lengths : BOOLEAN,
     use_rand_burst_times   : BOOLEAN,
     update_backward_weights : BOOLEAN]

Layers == 1..M
Units(m) == 1..size[m]
TestSet == 1..NTestSet

\* the stamp of the timestep a phase loop is in
Now(ph) ==
    IF testing THEN Stamp("test", tn, ph, time)
    ELSE Stamp("train", k*n_training_examples + n, ph, time)

\* no call of test_weights is running or has just returned
NoSnap == [layer |-> <<>>, x_hist |-> <<>>]

\* ----------------------------------------------------------------------
\* The readout of test_weights: the output layer's average_C_f as numbers
\* ----------------------------------------------------------------------
Categories == 0..(n_categories - 1)
OutUnits(kk) == 0..(n_categories*kk - 1)

\* the values an average potential takes
Potentials == {0, 1}

\* a reshape that fills columns first, row g holding entries g, g + 10, ...:
\* the variant C12 is checked against
reshape_by_columns(v, kk) == [g \in Categories |-> [j \in 0..(kk - 1) |-> v[j*n_categories + g]]]

\* v.reshape(-1, kk): row g holds entries g*kk .. g*kk + kk - 1
reshape(v, kk) == [g \in Categories |-> [j \in 0..(kk - 1) |-> v[g*kk + j]]]

RECURSIVE row_sum(_, _)
row_sum(row, upto) == IF upto < 0 THEN 0 ELSE row[upto] + row_sum(row, upto - 1)

\* np.mean(rows, axis=-1), times the common row length
row_means(rows, kk) == [g \in DOMAIN rows |-> row_sum(rows[g], kk - 1)]

\* np.argmax: the first index of the greatest entry
argmax(f) ==
    CHOOSE g \in DOMAIN f : /\ \A h \in DOMAIN f : f[h] <= f[g]
                            /\ \A h \in DOMAIN f : h < g => f[h] < f[g]

\* a column of t_test: the one-hot target of a label
one_hot(label) == [i \in Categories |-> IF i = label THEN 1 ELSE 0]

\* np.dot(np.arange(10), self.t)
dot_arange(tt) == row_sum([i \in Categories |-> i * tt[i]], n_categories - 1)

\* self.t.repeat(n_neurons_per_category, axis=0): the target of the target phase
repeat(tt, kk) == [j \in OutUnits(kk) |-> tt[j \div kk]]

\* the somatic potentials a timestep may compute: very negative, zero, very
\* positive
SignedPotentials == {-1000, 0, 1000}

\* the entries an input array may hold, before load_MNIST multiplies by phi_max
InputValues == {-1, 0, 1}

\* phi(x) = phi_max/(1.0 + np.exp(-x)); np.exp overflows to inf for x < -709
phi(v) == IF v <= -1000 THEN 0 ELSE IF v = 0 THEN phi_max \div 2 ELSE phi_max

\* no example has been classified by numbers; x_rates is the test input as
\* load_MNIST returns it, lam_x and lam_S the rates last passed to
\* np.random.poisson for the input history and for the layers' spike histories
NoReadout == [n_neurons_per_category |-> 0, labels |-> <<>>, x |-> 0, average_C_f |-> <<>>,
              x_rates |-> <<>>, lam_x |-> 0, lam_S |-> <<>>,
              t |-> <<>>, sel_num |-> -1, target_num |-> -1, results |-> <<>>]

\* ----------------------------------------------------------------------
\* The simulation directory
\* ----------------------------------------------------------------------

\* a file: its name and the run that wrote it
File(name, by) == [name |-> name, by |-> by]

NoDirectory == [exists |-> FALSE, files |-> {}]

\* the directory an earlier run has left
OldDirectory ==
    [exists |-> TRUE,
     files  |-> {File("simulation.json", "earlier"), File("full_test_errors.npy", "earlier"),
                 File("quick_test_errors.npy", "earlier"), File("epoch_0_weights", "earlier")}]

\* os.makedirs and, where the directory existed, shutil.rmtree before it
\* (lines 583-591); the script is copied into it (593-597)
make_directory == [exists |-> TRUE, files |-> {File("deep_learning.py", "this")}]

\* lines 645-662 and 690-692 of a new run: the manifest and the initial weights
new_run_files == {File("simulation.txt", "this"), File("simulation.json", "this"),
                  File("initial_weights", "this")}

\* lines 664-684 of a continued run: every np.load needs its file
loads_previous(d) ==
    {File("full_test_errors.npy", "earlier"), File("quick_test_errors.npy", "earlier")}
        \subseteq d.files

\* ----------------------------------------------------------------------
\* the module's globals and the manifest
\* ----------------------------------------------------------------------

\* the globals train writes to simulation.json (lines 599-641) with the values
\* the module gives them (lines 30-102), fractions in thousandths
module_values ==
    [n_full_test |-> 10000, n_quick_test |-> 100,
     use_rand_phase_lengths |-> TRUE, use_conductances |-> TRUE, use_broadcast |-> TRUE,
     use_spiking_feedback |-> TRUE, use_spiking_feedforward |-> TRUE,
     use_symmetric_weights |-> FALSE, noisy_symmetric_weights |-> FALSE,
     use_sparse_feedback |-> FALSE, update_backward_weights |-> FALSE,
     use_backprop |-> FALSE, use_apical_conductance |-> FALSE,
     use_weight_optimization |-> TRUE, record_backprop_angle |-> TRUE,
     record_loss |-> TRUE, record_eigvals |-> FALSE, record_matrices |-> FALSE,
     plot_eigvals |-> FALSE,
     dt |-> 1000, mem |-> 10, l_f_phase |-> 50, l_t_phase |-> 50, l_f_phase_test |-> 250,
     integration_time |-> 20, phi_max |-> 200, tau_s |-> 3000, tau_L |-> 10000,
     g_B |-> 600, g_A |-> 0, g_L |-> 100, g_D |-> 600,
     k_B |-> 857, k_D |-> 857, k_I |-> 1429,
     P_hidden |-> 100000, P_final |-> 500000]

ParamNames == DOMAIN module_values

\* params, lines 599-641: every global under its own name
params(now) == [name \in ParamNames |-> now[name]]

\* lines 1524-1559: the key of params each global is assigned from
key_read(name) == IF name = "P_hidden" THEN "g_L" ELSE name

\* the globals load_simulation assigns: all of params but
\* noisy_symmetric_weights
assigned_by_load == ParamNames \ {"noisy_symmetric_weights"}

\* load_simulation, lines 1524-1559
load_globals(now, json) ==
    [name \in ParamNames |-> IF name \in assigned_by_load THEN json[key_read(name)]
                             ELSE now[name]]

\* a process that has imported the module; no manifest
ModuleGlobals == [now |-> module_values, json |-> {}, loaded |-> FALSE]

\* ----------------------------------------------------------------------
\* array shapes: init_weights, init_layers and update_A
\* ----------------------------------------------------------------------

\* a shape <<rows, columns>>, or the failure of the operation that was to
\* make it
Shape(r, cl) == [ok |-> TRUE, rows |-> r, cols |-> cl]
Raises == [ok |-> FALSE, rows |-> 0, cols |-> 0]

\* np.dot of two 2-d arrays
np_dot(a, b2) ==
    IF a.ok /\ b2.ok /\ a.cols = b2.rows THEN Shape(a.rows, b2.cols) ELSE Raises

\* a + b with numpy's broadcasting
np_add(a, b2) ==
    LET fits(p, q) == p = q \/ p = 1 \/ q = 1
        max(p, q) == IF p >= q THEN p ELSE q
    IN  IF a.ok /\ b2.ok /\ fits(a.rows, b2.rows) /\ fits(a.cols, b2.cols)
        THEN Shape(max(a.rows, b2.rows), max(a.cols, b2.cols)) ELSE Raises

\* hist[:, j] = v[:, 0]: a column of `rows` entries takes as many, or one
column_fits(rows, v) == v.ok /\ (v.rows = rows \/ v.rows = 1)

\* init_weights, lines 182-219, without symmetric weights: the shapes of Y and c
\* for the layers 1..Len(sz), the last being the output layer
init_Y_shapes(sz, bc, wo) ==
    LET Mn == Len(sz)
        Ys[m \in 1..Mn] ==
            IF m = Mn THEN Shape(sz[Mn], sz[Mn])
            ELSE IF bc THEN (IF wo THEN np_dot(Shape(sz[m], sz[m+1]), Ys[m+1])
                                   ELSE Shape(sz[m], sz[Mn]))
                 ELSE Shape(sz[m], sz[m+1])
    IN  Ys

init_c_shapes(sz, bc, wo) ==
    LET Mn == Len(sz)
        Ys == init_Y_shapes(sz, bc, wo)
    IN  [m \in 1..Mn |->
            IF m = Mn THEN Shape(1, 1)
            ELSE IF bc THEN (IF wo THEN np_dot(Ys[m], Shape(sz[Mn], 1))
                                   ELSE Shape(sz[m], 1))
                 ELSE Shape(sz[m+1], 1)]

\* init_layers, lines 283-285: b_input_size of hidden layer m is n[m+1]
b_input_size(sz, m) == sz[m + 1]

\* Network.out_f, lines 298-351: the layer whose spike history or rate is
\* the feedback input of hidden layer m
feedback_source(sz, bc, m) == IF bc THEN sz[Len(sz)] ELSE sz[m + 1]

\* hiddenLayer.update_A, lines 1288-1297, on the shapes: whether it runs
update_A_runs(sh, m) ==
    LET PSP_A == Shape(feedback_source(sh.n, sh.use_broadcast, m), 1)
        A     == np_add(np_dot(sh.Y[m], PSP_A), sh.c[m])
    IN  /\ column_fits(sh.PSP_A_hist_rows[m], PSP_A)
        /\ column_fits(sh.n[m], A)

\* no network described by shapes
NoShapes == [stage |-> "none", n |-> <<>>, use_broadcast |-> TRUE,
             use_weight_optimization |-> TRUE, Y |-> <<>>, c |-> <<>>,
             PSP_A_hist_rows |-> <<>>, updated |-> 0]

\* ----------------------------------------------------------------------
\* what a value is computed from: the two layers with conductances
\* ----------------------------------------------------------------------

\* A value is the set of the draws and targets it was computed from.
\* the target t of an example, as a source
TargetSource(t) == {Stamp("target", t, "-", 0)}

\* "None", the b_input of a call that passes none
NoInput == {}

\* np.dot(hist, kappas) and np.mean(hist, axis=-1): of every column
Sources(hist) == UNION {hist[i] : i \in DOMAIN hist}

\* a forward pass that hands the target to the output layer as the target pass
\* does: the variant C25 is checked against
final_b_input_target(ph, t) == TargetSource(t)

\* Network.out_f (lines 320-351) calls the output layer with b_input None,
\* Network.out_t (lines 385-416) with self.t
final_b_input(ph, t) == IF ph = "f" THEN NoInput ELSE TargetSource(t)

\* finalLayer.update_I (lines 1435-1444), use_conductances: "self.I *= 0"
\* without input, else I = g_E*(E_E - C) + g_I*(E_I - C) with g_E the input
source_update_I(F, input) ==
    [F EXCEPT !.I = IF input = NoInput THEN {} ELSE input \cup F.C]

\* finalLayer.update_C (lines 1446-1462), use_conductances: C += C_dot*dt, with
\* C_dot of C and B in the forward phase and of C, B and I in the target phase
source_update_C(F, ph) ==
    LET C == IF ph = "f" THEN F.C \cup F.B ELSE F.C \cup F.B \cup F.I
    IN  [F EXCEPT !.C = C, !.C_hist = RingPut(@, F.integration_counter, C)]

\* finalLayer.out_f and out_t (lines 1467-1491)
source_final_out(F, ph, f_input, b_input, calc, draw) ==
    LET F1 == [F EXCEPT !.B = Sources(f_input)]
        F2 == source_update_I(F1, b_input)
        F3 == source_update_C(F2, ph)
        F4 == [F3 EXCEPT !.S_hist = Push(@, F3.C \cup {draw}),
                         !.integration_counter = (@ + 1) % integration_time]
    IN  IF ~calc THEN F4
        ELSE IF ph = "f" THEN [F4 EXCEPT !.average_C_f = Sources(F4.C_hist)]
        ELSE [F4 EXCEPT !.average_C_t = Sources(F4.C_hist)]

\* hiddenLayer.out_f and out_t (lines 1330-1363): B of the input draw, A of the
\* feedback, C += C_dot*dt with C_dot of C and B (no apical conductance)
source_hidden_out(H, b_input, draw) ==
    LET C == H.C \cup {draw}
    IN  [H EXCEPT !.B = {draw}, !.A = Sources(b_input), !.C = C,
                  !.S_hist = Push(@, C \cup {draw})]

\* Network.out_f / out_t with broadcast spiking feedback: layer 0 takes the
\* output layer's spike history, then the output layer takes layer 0's
source_Network_out(R, ph, t, calc, draw) ==
    LET h1 == source_hidden_out(R.hid, R.fin.S_hist, draw)
        f1 == source_final_out(R.fin, ph, h1.S_hist, final_b_input(ph, t), calc, draw)
    IN  [R EXCEPT !.hid = h1, !.fin = f1]

\* the two layers after init_layers
source_layers ==
    [hid |-> [A |-> {}, B |-> {}, C |-> {}, S_hist |-> [i \in 1..mem |-> {}]],
     fin |-> [I |-> {}, B |-> {}, C |-> {},
              C_hist |-> [i \in 1..integration_time |-> {}],
              S_hist |-> [i \in 1..mem |-> {}],
              average_C_f |-> {}, average_C_t |-> {}, integration_counter |-> 0],
     sel_num |-> {}]

\* no pair of runs
NoPair == [stage |-> "none", ex |-> 0, time |-> 0, t |-> <<0, 0>>, same |-> TRUE,
           run |-> <<source_layers, source_layers>>]

\* ----------------------------------------------------------------------
\* the recording arrays of train
\* ----------------------------------------------------------------------

\* the error a call of test_weights returns, named by the call: its kind and
\* the epoch and example it follows
TestOf(kind, ke, ne) == [kind |-> kind, k |-> ke, n |-> ne]

\* an entry of np.zeros(...) in an array of errors
NoErr == TestOf("zero", 0, 0)

\* np.zeros(len)
zeros_of(len, zero) == [i \in 1..len |-> zero]

\* a[i] = v, with i counted from 0
put(a, i, v) == [a EXCEPT ![i + 1] = v]

\* a[:len]
upto(a, len) == SubSeq(a, 1, len)

\* int(n_training_examples/1000)
per_epoch(nx) == nx \div QuickEvery

\* the labels of the columns of t_train as load_MNIST returns them
t_train_labels == [j \in 1..MaxRecExamples |-> (j - 1) % n_categories]

\* the permutations np.random.permutation is taken to draw from: the
\* identity and the reversal
Shuffles == {[j \in 1..MaxRecExamples |-> j],
             [j \in 1..MaxRecExamples |-> MaxRecExamples + 1 - j]}

\* nothing saved
NoSaved == [full |-> <<>>, quick |-> <<>>, labels |-> <<>>, initial_weights |-> FALSE,
            epoch_weights |-> {}]

\* no network whose recordings are followed
NoRec == [stage |-> "none", n_neurons_per_category |-> 0, last_epoch |-> None,
          save_simulation |-> FALSE, n_epochs |-> 0, n_training_examples |-> 0,
          k |-> 0, n |-> 0, t_train |-> t_train_labels, t_rows |-> 0,
          full_test_errs |-> <<>>, quick_test_errs |-> <<>>, training_labels |-> <<>>,
          tests |-> <<>>, saved |-> NoSaved]

\* ----------------------------------------------------------------------
\* sparse and symmetric feedback weights
\* ----------------------------------------------------------------------

\* the entries of Y[0].ravel(): Y[0] has size[1] rows and, with broadcast
\* feedback, size[M] columns
YEntries == 1..(size[1] * size[M])

\* an entry of Y[0]: where its un-sparsified value comes from and how many
\* times it was multiplied by 5
entry(base, times5) == [base |-> base, times5 |-> times5]

\* int(0.8*len(self.Y[m].ravel())), line 236
n_dropout == (8 * Cardinality(YEntries)) \div 10

\* np.random.choice(len, int(0.8*len), False): the draws possible
DropoutSets == {d \in SUBSET YEntries : Cardinality(d) = n_dropout}

\* the draws of a network constructed under the flags of the manifests js:
\* one, that is not used, without sparse feedback
DropoutChoices(js) ==
    IF \E j \in js : j.use_sparse_feedback THEN DropoutSets ELSE {{}}

\* lines 237-238 and 529-532: the entries at the dropout indices are zeroed and
\* the array is multiplied by 5
sparsify(Yf, idx) ==
    [i \in DOMAIN Yf |-> IF i \in idx THEN entry("zero", 0)
                         ELSE [Yf[i] EXCEPT !.times5 = @ + 1]]

\* make_weights_symmetric, lines 240-273: Y[0] is made anew from W[1]
make_weights_symmetric == [i \in YEntries |-> entry("W", 0)]

\* init_weights, lines 196-238: Y[0] is drawn or made from W[1], the dropout
\* indices are drawn, and Y[0] is made sparse
init_feedback(g, idx) ==
    LET Y0 == IF g.use_symmetric_weights THEN make_weights_symmetric
              ELSE [i \in YEntries |-> entry("draw", 0)]
    IN  [Y_dropout_indices |-> IF g.use_sparse_feedback THEN idx ELSE {},
         Y     |-> IF g.use_sparse_feedback THEN sparsify(Y0, idx) ELSE Y0,
         saved |-> Y0]

\* t_phase, lines 522-532: after the averages are reset
t_phase_feedback(g, ubw, sp) ==
    LET Y1 == IF g.use_symmetric_weights THEN make_weights_symmetric ELSE sp.Y
    IN  IF g.use_sparse_feedback /\ (g.use_symmetric_weights \/ ubw)
        THEN sparsify(Y1, sp.Y_dropout_indices)
        ELSE Y1

\* the network the module's flags construct: no sparse feedback
NoSparse == init_feedback(module_values, {})

\* ----------------------------------------------------------------------
\* weight values, init_weights, save_weights and load_weights
\* ----------------------------------------------------------------------

\* a weight value is the draw it started from and the updates written onto it;
\* np.random.uniform in init_weights of network net draws values no other
\* network draws
uniform(net) == [of |-> net, writes |-> 0]

\* a factor that keeps the draw: the variant C16 is checked against
times_one(v) == v

\* 0.0*(np.random.uniform(...) - 0.5), lines 209-219, and the 0 of [0]*self.M
times_zero(v) == [of |-> "zero", writes |-> 0]

\* np.eye(self.n[self.M-1]), line 182
eye == [of |-> "eye", writes |-> 0]

\* init_weights, lines 175-219
init_weights(net) ==
    [W |-> [m \in Layers |-> [i \in Units(m) |-> uniform(net)]],
     b |-> [m \in Layers |-> [i \in Units(m) |-> uniform(net)]],
     Y |-> [m \in Layers |-> IF m = M THEN eye ELSE uniform(net)],
     c |-> [m \in Layers |-> IF m = M THEN [of |-> "zero", writes |-> 0]
                                      ELSE times_zero(uniform(net))]]

\* += written `times` times onto a value
written(v, times) == [v EXCEPT !.writes = @ + times]

\* the weights of the training network: its initial values with the updates
\* the target phases wrote
net_weights ==
    LET init == init_weights("A")
    IN  [W |-> [m \in Layers |-> [i \in Units(m) |-> written(init.W[m][i], W[m][i])]],
         b |-> [m \in Layers |-> [i \in Units(m) |-> written(init.b[m][i], b[m][i])]],
         Y |-> [m \in Layers |-> written(init.Y[m], Y[m])],
         c |-> [m \in Layers |-> written(init.c[m], c[m])]]

\* save_weights, lines 1162-1167: four files per layer
save_weights(w) ==
    UNION {{[name |-> "f_weights", m |-> m, data |-> w.W[m]],
            [name |-> "f_bias",    m |-> m, data |-> w.b[m]],
            [name |-> "b_weights", m |-> m, data |-> w.Y[m]],
            [name |-> "b_bias",    m |-> m, data |-> w.c[m]]} : m \in Layers}

\* np.load of one file
np_load(files, name, m) == (CHOOSE f \in files : f.name = name /\ f.m = m).data

\* load_weights, lines 1173-1177: W, b and Y are loaded, the line loading c is
\* commented out
load_weights(w, files) ==
    [w EXCEPT !.W = [m \in Layers |-> np_load(files, "f_weights", m)],
              !.b = [m \in Layers |-> np_load(files, "f_bias", m)],
              !.Y = [m \in Layers |-> np_load(files, "b_weights", m)]]

\* nothing saved, no second network
NoStore == [files |-> {}, fresh |-> {}, loaded |-> FALSE]

InitCommon ==
    /\ cfg \in Options
    /\ pc = "idle"
    /\ caller = "idle"
    /\ n_epochs = 0
    /\ n_training_examples = 0
    /\ k = 0
    /\ n = 0
    /\ time = 0
    /\ testing = FALSE
    /\ n_test = 0
    /\ tn = 0
    /\ num_correct = 0
    /\ err_rate = 0
    /\ l_f_phase = min_l_f_phase
    /\ l_t_phase = min_l_t_phase
    /\ old_l_f_phase = 0
    /\ burst_times = [m \in Layers |-> [i \in Units(m) |-> -1]]
    /\ x_hist = <<>>
    /\ old_x_hist = <<>>
    /\ l = <<1, 2>>
    /\ old_l = <<>>
    /\ layer = [o \in 1..M |->
                  IF o = 1 THEN hiddenLayer_init(cfg.update_backward_weights)
                  ELSE finalLayer_init]
    /\ W = [m \in Layers |-> [i \in Units(m) |-> 0]]
    /\ b = [m \in Layers |-> [i \in Units(m) |-> 0]]
    /\ Y = [m \in Layers |-> 0]
    /\ c = [m \in Layers |-> 0]
    /\ store = NoStore
    /\ x_test = [i \in TestSet |-> i]
    /\ x = 0
    /\ calls = 0
    /\ evald = <<>>
    /\ errs = <<>>
    /\ snap = NoSnap
    /\ last_epoch = None
    /\ save_simulation = FALSE
    /\ overwrite = FALSE

Init ==
    /\ InitCommon
    /\ readout = NoReadout
    /\ disk = NoDirectory
    /\ shapes = NoShapes
    /\ pair = NoPair
    /\ rec = NoRec
    /\ globals = ModuleGlobals
    /\ sparse = NoSparse
    /\ seed_perm = [i \in TestSet |-> i]
    /\ oracle = [e \in TestSet |-> TRUE]

\* ----------------------------------------------------------------------
\* Network.test_weights
\* ----------------------------------------------------------------------

\* lines 1091-1109: save what is restored afterwards, shuffle the test data
TestBegin(p) ==
    /\ pc = "test"
    /\ old_l_f_phase' = l_f_phase
    /\ l_f_phase' = l_f_phase_test
    /\ old_x_hist' = x_hist
    /\ old_l' = l
    /\ num_correct' = 0
    /\ x_test' = shuffle_arrays(x_test, p)
    /\ tn' = 0
    /\ testing' = TRUE
    /\ snap' = [layer |-> layer, x_hist |-> x_hist]
    /\ evald' = IF caller = "idle" THEN Append(evald, <<>>) ELSE evald
    /\ pc' = "test_ex"
    /\ UNCHANGED <<sim_vars, readout, cfg, caller, n_epochs, n_training_examples, k, n, time, n_test,
                   err_rate, l_t_phase, burst_times, x_hist, l, layer, weights, x,
                   seed_perm, oracle, calls, errs>>

\* lines 1111-1121: clear the layers and the input history, take example n
TestExample ==
    /\ pc = "test_ex"
    /\ layer' = [o \in DOMAIN layer |->
                   IF \E m \in Layers : l[m] = o
                   THEN clear_vars(layer[o], cfg.update_backward_weights)
                   ELSE layer[o]]
    /\ x_hist' = ZeroHist(mem)
    /\ x' = x_test[tn + 1]
    /\ time' = 0
    /\ pc' = "f"
    /\ UNCHANGED <<sim_vars, cfg, caller, n_epochs, n_training_examples, k, n, testing, n_test, tn,
                   num_correct, err_rate, l_f_phase, l_t_phase, old_l_f_phase,
                   burst_times, old_x_hist, l, old_l, weights, x_test,
                   seed_perm, oracle, calls, evald, errs, snap>>

\* lines 1125-1132: compare the selected class with the target, next example
Classify(ok) ==
    /\ pc = "f_ret"
    /\ testing
    /\ num_correct' = IF ok THEN num_correct + 1 ELSE num_correct
    /\ evald' = IF caller = "idle"
                THEN [evald EXCEPT ![Len(evald)] = Append(@, x)]
                ELSE evald
    /\ tn' = tn + 1
    /\ pc' = IF tn + 1 < n_test THEN "test_ex" ELSE "test_end"
    /\ UNCHANGED <<sim_vars, cfg, caller, n_epochs, n_training_examples, k, n, time, testing, n_test,
                   err_rate, l_f_phase, l_t_phase, old_l_f_phase, burst_times,
                   x_hist, old_x_hist, l, old_l, layer, weights, x_test, x,
                   seed_perm, oracle, calls, errs, snap>>

\* lines 1139-1154: the error rate; "restore everything to its previous state".
\* The locals num_correct, n, old_l, old_x_hist and old_l_f_phase end with the call
TestEnd ==
    /\ pc = "test_end"
    /\ err_rate' = ((n_test - num_correct) * 100) \div n_test
    /\ l' = old_l
    /\ x_hist' = IF old_x_hist # <<>> THEN old_x_hist ELSE x_hist
    /\ l_f_phase' = old_l_f_phase
    /\ testing' = FALSE
    /\ tn' = 0
    /\ num_correct' = 0
    /\ old_l' = <<>>
    /\ old_x_hist' = <<>>
    /\ old_l_f_phase' = 0
    /\ calls' = IF caller = "idle" THEN calls + 1 ELSE calls
    /\ errs' = IF caller = "idle" THEN Append(errs, err_rate') ELSE errs
    /\ pc' = caller
    /\ UNCHANGED <<sim_vars, readout, cfg, caller, n_epochs, n_training_examples, k, n, time, n_test,
                   l_t_phase, burst_times, layer, weights, x_test, x, seed_perm,
                   oracle, evald, snap>>

\* ----------------------------------------------------------------------
\* Network.f_phase and Network.t_phase
\* ----------------------------------------------------------------------

\* "for time in xrange(l_f_phase)": whether the loop body runs again
f_loop_continues(t) == t + 1 < l_f_phase

\* a loop that leaves one timestep early: the variant C1 is checked against
t_loop_short(t) == t + 2 < l_t_phase

\* "for time in xrange(l_t_phase)"
t_loop_continues(t) == t + 1 < l_t_phase

\* averages taken at the first timestep of a phase instead of the last: the
\* variant C26 is checked against
calc_averages_first(t, len) == t = 0

\* "calc_averages = time == l_f_phase - 1" (l_t_phase - 1 in t_phase)
calc_averages(t, len) == t = len - 1

\* one iteration of the loop of f_phase (lines 425-433), weights aside
f_phase_step ==
    /\ pc = "f"
    /\ x_hist' = Push(x_hist, Now("f"))
    /\ layer' = Network_out(l, layer, x_hist', x, "f",
                            calc_averages(time, l_f_phase),
                            cfg.update_backward_weights, Now("f"))
    /\ time' = IF f_loop_continues(time) THEN time + 1 ELSE 0
    /\ pc' = IF f_loop_continues(time) THEN "f" ELSE "f_ret"
    /\ UNCHANGED <<sim_vars, cfg, caller, n_epochs, n_training_examples, k, n, testing, n_test, tn,
                   num_correct, err_rate, l_f_phase, l_t_phase, old_l_f_phase,
                   burst_times, old_x_hist, l, old_l, x_test, x,
                   seed_perm, oracle, calls, evald, errs, snap>>

\* a forward timestep that also applies update_W: the variant C3 is checked
\* against
FStep_training ==
    /\ f_phase_step
    /\ UNCHANGED readout
    /\ W' = [m \in Layers |-> update_rows(W[m], Units(m))]
    /\ UNCHANGED <<b, Y, c>>

FStep ==
    /\ f_phase_step
    /\ UNCHANGED weights
    /\ UNCHANGED readout

\* a burst time counted from the start of the target phase instead of from
\* its end: the variant C24 is checked against
burst_time_from_start(rand, lt, d) ==
    IF rand
    THEN (IF d < MaxBurstDelay THEN d ELSE MaxBurstDelay)
    ELSE lt - 1

\* burst_times[m][n][i] (lines 809-812): l_t_phases[...] - 1 - min(|draw|, 15),
\* or l_t_phases[...] - 1
burst_time(rand, lt, d) ==
    IF rand
    THEN lt - 1 - (IF d < MaxBurstDelay THEN d ELSE MaxBurstDelay)
    ELSE lt - 1

\* train lines 849-859 and t_phase lines 462-470: the target phase is entered.
\* Row n of burst_times[m] (lines 809-812) is a draw that only this target phase
\* reads: it is drawn here, where it is first read
StartTarget(d) ==
    /\ pc = "f_ret"
    /\ ~testing
    /\ burst_times' = [m \in Layers |-> [i \in Units(m) |->
                          burst_time(cfg.use_rand_burst_times, l_t_phase, d[<<m, i>>])]]
    /\ time' = 0
    /\ pc' = "t"
    /\ UNCHANGED <<sim_vars, readout, cfg, caller, n_epochs, n_training_examples, k, n, testing, n_test, tn,
                   num_correct, err_rate, l_f_phase, l_t_phase, old_l_f_phase,
                   x_hist, old_x_hist, l, old_l, layer, weights, x_test, x,
                   seed_perm, oracle, calls, evald, errs, snap>>

\* the rows of layer m written by update_W at timestep t
W_rows_written(m, t) == burst_indices_at(burst_times[m], t)

\* one iteration of the loop of t_phase (lines 472-491): the input history, the
\* target pass, then update_W of every layer from the last to the first and, with
\* upd_b_weights, update_Y of the hidden layer, which raises when the burst rows
\* do not broadcast
TStep ==
    /\ pc = "t"
    /\ x_hist' = Push(x_hist, Now("t"))
    /\ LET out == Network_out(l, layer, x_hist', x, "t",
                              calc_averages(time, l_t_phase),
                              cfg.update_backward_weights, Now("t"))
       IN  layer' = [o \in DOMAIN out |-> update_W_layer(out[o], Now("t"))]
    /\ W' = [m \in Layers |-> update_rows(W[m], W_rows_written(m, time))]
    /\ b' = [m \in Layers |-> update_rows(b[m], W_rows_written(m, time))]
    /\ LET raises == /\ cfg.update_backward_weights
                     /\ \E m \in 1..(M-1) :
                           ~update_Y_broadcasts(m, burst_indices_at(burst_times[m], time))
       IN  /\ Y' = [m \in Layers |->
                      IF cfg.update_backward_weights /\ m < M /\ ~raises
                      THEN Y[m] + 1 ELSE Y[m]]
           /\ pc' = IF raises THEN "crashed"
                    ELSE IF t_loop_continues(time) THEN "t" ELSE "t_end"
           /\ time' = IF ~raises /\ t_loop_continues(time) THEN time + 1 ELSE time
    /\ UNCHANGED <<sim_vars, readout, cfg, caller, n_epochs, n_training_examples, k, n, testing, n_test, tn,
                   num_correct, err_rate, l_f_phase, l_t_phase, old_l_f_phase,
                   burst_times, old_x_hist, l, old_l, c, x_test, x,
                   seed_perm, oracle, calls, evald, errs, snap>>

NoBurst == [m \in Layers |-> [i \in Units(m) |-> -1]]

\* t_phase lines 501-520: the averages of every layer are reset.  The phase has
\* read row n of burst_times for the last time
TPhaseEnd ==
    /\ pc = "t_end"
    /\ burst_times' = NoBurst
    /\ layer' = [o \in DOMAIN layer |->
                   IF \E m \in Layers : l[m] = o
                   THEN reset_averages(layer[o], cfg.update_backward_weights)
                   ELSE layer[o]]
    /\ sparse' = [sparse EXCEPT !.Y = t_phase_feedback(globals.now,
                                                       cfg.update_backward_weights, sparse)]
    /\ time' = 0
    /\ pc' = "after"
    /\ UNCHANGED <<last_epoch, save_simulation, overwrite, disk, store, globals, shapes, pair, rec, readout, cfg, caller, n_epochs, n_training_examples, k, n, testing, n_test, tn,
                   num_correct, err_rate, l_f_phase, l_t_phase, old_l_f_phase,
                   x_hist, old_x_hist, l, old_l, weights, x_test, x,
                   seed_perm, oracle, calls, evald, errs, snap>>

\* ----------------------------------------------------------------------
\* Network.train
\* ----------------------------------------------------------------------

\* a conflict test that takes a continued run for a new one: the variant C13
\* is checked against
directory_conflict_continued(save, ow, le) == save /\ disk.exists /\ le >= 0 /\ ~ow

\* lines 583-588: the directory exists, the run is new and overwrite is off
directory_conflict(save, ow, le) == save /\ disk.exists /\ le < 0 /\ ~ow

\* train, lines 545-756: self.last_epoch is set if it never was, the input
\* history is created, the simulation directory is made or the call returns
\* because it exists, the manifest and initial weights are written or the
\* earlier recordings loaded, and a new run calls the initial full test
TrainCall(ne, nx, save, ow, le) ==
    /\ pc = "idle"
    /\ last_epoch' = IF last_epoch = None THEN le ELSE last_epoch
    /\ save_simulation' = save
    /\ overwrite' = ow
    /\ x_hist' = ZeroHist(mem)
    /\ IF directory_conflict(save, ow, last_epoch')
       THEN \* line 586-588: return
            /\ pc' = "returned"
            /\ UNCHANGED <<disk, globals, n_epochs, n_training_examples, k, n, n_test, caller>>
       ELSE /\ n_epochs' = ne
            /\ globals' = IF ~save THEN globals
                          ELSE [globals EXCEPT !.json = IF last_epoch' < 0
                                                        THEN {params(globals.now)} ELSE {}]
            /\ n_training_examples' = nx
            /\ k' = 0
            /\ n' = 0
            /\ disk' = IF ~save THEN disk
                       ELSE IF last_epoch' < 0
                            THEN [make_directory EXCEPT !.files = @ \cup new_run_files]
                            ELSE make_directory
            /\ IF last_epoch' < 0
               THEN /\ n_test' = n_full_test
                    /\ caller' = "ret_init"
                    /\ pc' = "test"
               ELSE /\ pc' = IF save /\ ~loads_previous(disk') THEN "crashed" ELSE "epoch"
                    /\ UNCHANGED <<n_test, caller>>
    /\ UNCHANGED <<store, sparse, shapes, pair, rec, readout, cfg, time, testing, tn, num_correct, err_rate, l_f_phase,
                   l_t_phase, old_l_f_phase, burst_times, old_x_hist, l, old_l, layer,
                   weights, x_test, x, seed_perm, oracle, calls, evald, errs, snap>>

\* train(..., save_simulation=False), a new run
Train(ne, nx) == TrainCall(ne, nx, FALSE, FALSE, -1)

\* lines 758-802: after the initial test its error is recorded and, when the
\* simulation is saved, written; the input history is created again
TrainResume ==
    /\ pc = "ret_init"
    /\ disk' = IF save_simulation
               THEN [disk EXCEPT !.files = @ \cup {File("full_test_errors.npy", "this"),
                                                    File("quick_test_errors.npy", "this")}]
               ELSE disk
    /\ x_hist' = ZeroHist(mem)
    /\ snap' = NoSnap
    /\ pc' = "epoch"
    /\ UNCHANGED <<last_epoch, save_simulation, overwrite, store, globals, sparse, shapes, pair, rec, readout, cfg, caller, n_epochs, n_training_examples, k, n, time, testing, n_test,
                   tn, num_correct, err_rate, l_f_phase, l_t_phase, old_l_f_phase,
                   burst_times, old_x_hist, l, old_l, layer, weights, x_test, x,
                   seed_perm, oracle, calls, evald, errs>>

\* lines 804-812: an epoch begins
EpochStart ==
    /\ pc = "epoch"
    /\ n' = 0
    /\ pc' = "example"
    /\ UNCHANGED <<sim_vars, readout, cfg, caller, n_epochs, n_training_examples, k, time, testing, n_test,
                   tn, num_correct, err_rate, l_f_phase, l_t_phase, old_l_f_phase,
                   burst_times, x_hist, old_x_hist, l, old_l, layer, weights, x_test, x,
                   seed_perm, oracle, calls, evald, errs, snap>>

\* l_t_phases[k*n_training_examples + n]: min_l_t_phase plus the Wald draw, or
\* the module's l_t_phase
phase_length(rand, min_len, cur, w) == IF rand THEN min_len + w ELSE cur

\* lines 814-838: example n's phase lengths and data.  Entry
\* k*n_training_examples + n of l_f_phases and of l_t_phases is a draw that only
\* this example reads: it is drawn here
ExampleStart(wf, wt) ==
    /\ pc = "example"
    /\ l_f_phase' = phase_length(cfg.use_rand_phase_lengths, min_l_f_phase, l_f_phase, wf)
    /\ l_t_phase' = phase_length(cfg.use_rand_phase_lengths, min_l_t_phase, l_t_phase, wt)
    /\ x' = 0
    /\ time' = 0
    /\ pc' = "f"
    /\ UNCHANGED <<sim_vars, readout, cfg, caller, n_epochs, n_training_examples, k, n, testing, n_test, tn,
                   num_correct, err_rate, old_l_f_phase, burst_times, x_hist, old_x_hist, l, old_l,
                   layer, weights, x_test, seed_perm, oracle, calls, evald, errs, snap>>

\* the end of the body of "for n in xrange(n_training_examples)" and of
\* "for k in xrange(n_epochs)"
Advance ==
    /\ n' = IF n + 1 < n_training_examples THEN n + 1 ELSE n
    /\ k' = IF n + 1 < n_training_examples \/ k + 1 >= n_epochs THEN k ELSE k + 1
    /\ pc' = IF n + 1 < n_training_examples THEN "example"
             ELSE IF k + 1 < n_epochs THEN "epoch" ELSE "done"

\* lines 861-865 and 932-950: every 1000 examples a test is called, a quick one
\* within the epoch and a full one at its last example
AfterExample ==
    /\ pc = "after"
    /\ IF (n + 1) % QuickEvery = 0
       THEN /\ n_test' = IF n # n_training_examples - 1 THEN n_quick_test ELSE n_full_test
            /\ caller' = "ret_loop"
            /\ pc' = "test"
            /\ UNCHANGED <<n, k>>
       ELSE /\ Advance
            /\ UNCHANGED <<n_test, caller>>
    /\ UNCHANGED <<sim_vars, readout, cfg, n_epochs, n_training_examples, time, testing, tn,
                   num_correct, err_rate, l_f_phase, l_t_phase, old_l_f_phase,
                   burst_times, x_hist, old_x_hist, l, old_l, layer, weights, x_test, x,
                   seed_perm, oracle, calls, evald, errs, snap>>

\* lines 937-1081: the test's result is recorded, the loops go on
RecordTest ==
    /\ pc = "ret_loop"
    /\ Advance
    /\ snap' = NoSnap
    /\ UNCHANGED <<sim_vars, readout, cfg, caller, n_epochs, n_training_examples, time, testing, n_test, tn,
                   num_correct, err_rate, l_f_phase, l_t_phase, old_l_f_phase,
                   burst_times, x_hist, old_x_hist, l, old_l, layer, weights, x_test, x,
                   seed_perm, oracle, calls, evald, errs>>

\* the draws an example makes: none when the option is off
AllUnits == UNION {{<<m, i>> : i \in Units(m)} : m \in Layers}
WaldDraws == IF cfg.use_rand_phase_lengths THEN 0..MaxWald ELSE {0}
NormalDraws == [AllUnits -> IF cfg.use_rand_burst_times THEN 0..MaxNormal ELSE {0}]

Next ==
    \/ \E ne \in 1..MaxEpochs, nx \in 1..MaxExamples : Train(ne, nx)
    \/ \E p \in Perms(TestSet) : TestBegin(p)
    \/ TestExample /\ UNCHANGED readout
    \/ \E ok \in BOOLEAN : Classify(ok) /\ UNCHANGED readout
    \/ TestEnd
    \/ TrainResume
    \/ EpochStart
    \/ \E wf \in WaldDraws, wt \in WaldDraws : ExampleStart(wf, wt)
    \/ FStep
    \/ \E d \in NormalDraws : StartTarget(d)
    \/ TStep
    \/ TPhaseEnd
    \/ AfterExample
    \/ RecordTest

Spec == Init /\ [][Next]_vars

\* ----------------------------------------------------------------------
\* test_weights called from outside train, each call from the same state of
\* the random generator
\* ----------------------------------------------------------------------

\* a call test_weights(n_test=nt) on the constructed network
EvalCall(nt) ==
    /\ pc = "idle"
    /\ calls < MaxCalls
    /\ n_test' = nt
    /\ caller' = "idle"
    /\ pc' = "test"
    /\ UNCHANGED <<sim_vars, readout, cfg, n_epochs, n_training_examples, k, n, time, testing, tn,
                   num_correct, err_rate, l_f_phase, l_t_phase, old_l_f_phase,
                   burst_times, x_hist, old_x_hist, l, old_l, layer, weights,
                   x_test, x, seed_perm, oracle, calls, evald, errs, snap>>

\* the generator is seeded before each call: np.random.permutation yields
\* seed_perm every time, and the same draws decide each example's class
InitSeed ==
    /\ InitCommon
    /\ readout = NoReadout
    /\ disk = NoDirectory
    /\ shapes = NoShapes
    /\ pair = NoPair
    /\ rec = NoRec
    /\ globals = ModuleGlobals
    /\ sparse = NoSparse
    /\ seed_perm \in Perms(TestSet)
    /\ oracle \in [TestSet -> BOOLEAN]

NextSeed ==
    \/ \E nt \in {n_quick_test, n_full_test} : EvalCall(nt)
    \/ TestBegin(seed_perm)
    \/ TestExample /\ UNCHANGED readout
    \/ FStep
    \/ Classify(oracle[x]) /\ UNCHANGED readout
    \/ TestEnd

SpecSeed == InitSeed /\ [][NextSeed]_vars

\* ----------------------------------------------------------------------
\* The start of train with every choice of save_simulation, overwrite and
\* last_epoch, the simulation directory existing or not, up to the first epoch
\* ----------------------------------------------------------------------
InitSave ==
    /\ InitCommon
    /\ seed_perm = [i \in TestSet |-> i]
    /\ oracle = [e \in TestSet |-> TRUE]
    /\ readout = NoReadout
    /\ disk \in {NoDirectory, OldDirectory}
    /\ shapes = NoShapes
    /\ pair = NoPair
    /\ rec = NoRec
    /\ globals = [ModuleGlobals EXCEPT !.json = IF disk.exists THEN {params(module_values)}
                                                ELSE {}]
    /\ sparse = NoSparse

NextSave ==
    \/ \E ne \in 1..MaxEpochs, nx \in 1..MaxExamples, save \in BOOLEAN, ow \in BOOLEAN,
          le \in {-1, 0} : TrainCall(ne, nx, save, ow, le)
    \/ \E p \in Perms(TestSet) : TestBegin(p)
    \/ TestExample /\ UNCHANGED readout
    \/ \E ok \in BOOLEAN : Classify(ok) /\ UNCHANGED readout
    \/ FStep
    \/ TestEnd
    \/ TrainResume

SpecSave == InitSave /\ [][NextSave]_vars


\* ----------------------------------------------------------------------
\* test_weights with the classification computed from the output layer's
\* average potentials
\* ----------------------------------------------------------------------

\* lines 1120-1132 with numbers: the forward phase has left avg in the output
\* layer's average_C_f; self.t is the example's column of t_test
ClassifyReadout(avg) ==
    LET kk         == readout.n_neurons_per_category
        tt         == one_hot(readout.labels[x])
        sel_num    == argmax(row_means(reshape(avg, kk), kk))
        target_num == dot_arange(tt)
    IN  /\ pc = "f_ret"
        /\ readout' = [readout EXCEPT !.x = x, !.average_C_f = avg, !.t = tt,
                                      !.sel_num = sel_num, !.target_num = target_num,
                                      !.results = Append(@, sel_num = target_num)]
        /\ Classify(sel_num = target_num)

\* clear_vars zeroes the output layer's average_C_f; sel_num and target_num of
\* the example before are dead
TestExampleReadout ==
    /\ TestExample
    /\ readout' = [readout EXCEPT !.x = 0, !.average_C_f = <<>>, !.t = <<>>,
                                  !.sel_num = -1, !.target_num = -1]

\* one call of test_weights on the constructed network
EvalOnce(nt) ==
    /\ calls = 0
    /\ EvalCall(nt)

\* a network whose output layer has n_categories*n_neurons_per_category units
\* and a labelled test set; the options do not enter the readout
InitReadout ==
    /\ InitCommon
    /\ cfg = [use_rand_phase_lengths |-> TRUE, use_rand_burst_times |-> TRUE,
              update_backward_weights |-> FALSE]
    /\ seed_perm \in Perms(TestSet)
    /\ oracle = [e \in TestSet |-> TRUE]
    /\ disk = NoDirectory
    /\ shapes = NoShapes
    /\ pair = NoPair
    /\ rec = NoRec
    /\ globals = ModuleGlobals
    /\ sparse = NoSparse
    /\ \E kk \in 1..MaxPerCategory, lab \in [TestSet -> Categories] :
          readout = [NoReadout EXCEPT !.n_neurons_per_category = kk, !.labels = lab]

NextReadout ==
    \/ \E nt \in {n_quick_test, n_full_test} : EvalOnce(nt)
    \/ TestBegin(seed_perm)
    \/ TestExampleReadout
    \/ FStep
    \/ \E avg \in [OutUnits(readout.n_neurons_per_category) -> Potentials] : ClassifyReadout(avg)
    \/ TestEnd

SpecReadout == InitReadout /\ [][NextReadout]_vars

\* ----------------------------------------------------------------------
\* training, then save_weights, a second network and load_weights
\* ----------------------------------------------------------------------

between_calls == pc \in {"idle", "done"}

StoreFrame ==
    UNCHANGED <<last_epoch, save_simulation, overwrite, disk, globals, sparse, shapes, pair, rec, readout, cfg, pc, caller,
                n_epochs, n_training_examples, k, n, time, testing, n_test, tn,
                num_correct, err_rate, l_f_phase, l_t_phase, old_l_f_phase, burst_times,
                x_hist, old_x_hist, l, old_l, layer, weights, x_test, x, seed_perm,
                oracle, calls, evald, errs, snap>>

\* net.save_weights(path, prefix) between two calls
SaveWeights ==
    /\ between_calls
    /\ store.files = {}
    /\ store' = [store EXCEPT !.files = save_weights(net_weights)]
    /\ StoreFrame

\* Network(n) with the same n: __init__ calls init_weights
NewNetwork ==
    /\ between_calls
    /\ store.files # {}
    /\ store.fresh = {}
    /\ store' = [store EXCEPT !.fresh = {init_weights("B")}]
    /\ StoreFrame

\* load_weights(path, prefix) on the second network
LoadWeights ==
    /\ between_calls
    /\ store.fresh # {}
    /\ ~store.loaded
    /\ store' = [store EXCEPT !.fresh = {load_weights(w, store.files) : w \in store.fresh},
                              !.loaded = TRUE]
    /\ StoreFrame

InitWeights ==
    /\ InitCommon
    /\ cfg = [use_rand_phase_lengths |-> TRUE, use_rand_burst_times |-> TRUE,
              update_backward_weights |-> FALSE]
    /\ seed_perm = [e \in TestSet |-> e]
    /\ oracle = [e \in TestSet |-> TRUE]
    /\ readout = NoReadout
    /\ disk = NoDirectory
    /\ shapes = NoShapes
    /\ pair = NoPair
    /\ rec = NoRec
    /\ globals = ModuleGlobals
    /\ sparse = NoSparse

NextWeights ==
    \/ \E ne \in 1..MaxEpochs, nx \in 1..MaxExamples : Train(ne, nx)
    \/ TestBegin(seed_perm)
    \/ TestExample /\ UNCHANGED readout
    \/ Classify(oracle[x]) /\ UNCHANGED readout
    \/ TestEnd
    \/ TrainResume
    \/ EpochStart
    \/ \E wf \in WaldDraws, wt \in WaldDraws : ExampleStart(wf, wt)
    \/ FStep
    \/ \E d \in NormalDraws : StartTarget(d)
    \/ TStep
    \/ TPhaseEnd
    \/ AfterExample
    \/ RecordTest
    \/ SaveWeights
    \/ NewNetwork
    \/ LoadWeights

SpecWeights == InitWeights /\ [][NextWeights]_vars

\* ----------------------------------------------------------------------
\* load_simulation on the directory of an earlier run, then train
\* ----------------------------------------------------------------------

\* the globals of the process that made the earlier run: the module's, or the
\* module's with a constant edited
RunGlobals ==
    {module_values,
     [module_values EXCEPT !.noisy_symmetric_weights = TRUE, !.use_symmetric_weights = TRUE],
     [module_values EXCEPT !.l_f_phase_test = 100]}

\* load_simulation(last_epoch, folder_name), lines 1497-1571: the globals are
\* assigned from simulation.json, a network is constructed and load_weights
\* reads the files of epoch le, which np.load needs to exist; W, b and Y then
\* count the updates written since
LoadSimulation(le, idx) ==
    /\ pc = "idle"
    /\ last_epoch = None
    /\ disk.exists
    /\ globals.json # {}
    /\ globals' = [globals EXCEPT !.now = CHOOSE g \in {load_globals(globals.now, j) : j \in globals.json} : TRUE,
                                  !.loaded = TRUE]
    /\ IF File("epoch_0_weights", "earlier") \in disk.files /\ le = 0
       THEN /\ last_epoch' = le
            /\ sparse' = [init_feedback(globals'.now, idx) EXCEPT !.Y = sparse.saved,
                                                                  !.saved = sparse.saved]
            /\ pc' = "idle"
       ELSE /\ pc' = "crashed"
            /\ sparse' = [init_feedback(globals'.now, idx) EXCEPT !.saved = sparse.saved]
            /\ UNCHANGED last_epoch
    /\ UNCHANGED <<save_simulation, overwrite, disk, store, shapes, pair, rec, readout, cfg, caller,
                   n_epochs, n_training_examples, k, n, time, testing, n_test, tn,
                   num_correct, err_rate, l_f_phase, l_t_phase, old_l_f_phase, burst_times,
                   x_hist, old_x_hist, l, old_l, layer, weights, x_test, x, seed_perm,
                   oracle, calls, evald, errs, snap>>

InitManifest ==
    /\ InitCommon
    /\ seed_perm = [i \in TestSet |-> i]
    /\ oracle = [e \in TestSet |-> TRUE]
    /\ readout = NoReadout
    /\ disk = OldDirectory
    /\ shapes = NoShapes
    /\ pair = NoPair
    /\ rec = NoRec
    /\ \E run \in RunGlobals : globals = [ModuleGlobals EXCEPT !.json = {params(run)}]
    /\ sparse = NoSparse

NextManifest ==
    \/ \E le \in {0, 1}, idx \in DropoutChoices(globals.json) : LoadSimulation(le, idx)
    \/ NextSave

SpecManifest == InitManifest /\ [][NextManifest]_vars

\* ----------------------------------------------------------------------
\* training with sparse feedback, from construction or from load_simulation
\* ----------------------------------------------------------------------

\* the module with use_sparse_feedback set
sparse_values(sym, ubw) ==
    [module_values EXCEPT !.use_sparse_feedback = TRUE, !.use_symmetric_weights = sym,
                          !.update_backward_weights = ubw]

\* a network constructed with sparse feedback, beside the directory of an
\* earlier run under the same flags whose Y[0] was made sparse with that run's
\* draw of dropout indices
InitSparse ==
    /\ InitCommon
    /\ cfg.use_rand_phase_lengths /\ cfg.use_rand_burst_times
    /\ seed_perm = [i \in TestSet |-> i]
    /\ oracle = [e \in TestSet |-> TRUE]
    /\ readout = NoReadout
    /\ disk = OldDirectory
    /\ shapes = NoShapes
    /\ pair = NoPair
    /\ rec = NoRec
    /\ \E sym \in BOOLEAN, idx \in DropoutSets, run_idx \in DropoutSets :
          LET g == sparse_values(sym, cfg.update_backward_weights)
          IN  /\ globals = [now |-> g, json |-> {params(g)}, loaded |-> FALSE]
              /\ sparse = [init_feedback(g, idx) EXCEPT
                              !.saved = init_feedback(g, run_idx).Y]

NextSparse ==
    \/ \E le \in {0, 1}, idx \in DropoutChoices(globals.json) : LoadSimulation(le, idx)
    \/ \E ne \in 1..MaxEpochs, nx \in 1..MaxExamples : Train(ne, nx)
    \/ TestBegin(seed_perm)
    \/ TestExample /\ UNCHANGED readout
    \/ Classify(oracle[x]) /\ UNCHANGED readout
    \/ TestEnd
    \/ TrainResume
    \/ EpochStart
    \/ \E wf \in WaldDraws, wt \in WaldDraws : ExampleStart(wf, wt)
    \/ FStep
    \/ \E d \in NormalDraws : StartTarget(d)
    \/ TStep
    \/ TPhaseEnd
    \/ AfterExample
    \/ RecordTest

SpecSparse == InitSparse /\ [][NextSparse]_vars

\* ----------------------------------------------------------------------
\* Network(n) for any layer sizes, then the first timestep's update_A
\* ----------------------------------------------------------------------

\* the tuples n a network of 2..MaxLayers layers can be given
LayerSizes == UNION {[1..len -> 1..MaxSize] : len \in 2..MaxLayers}

ShapesFrame ==
    UNCHANGED <<cfg, pc, caller, n_epochs, n_training_examples, k, n, time, testing, n_test,
                tn, num_correct, err_rate, l_f_phase, l_t_phase, old_l_f_phase, burst_times,
                x_hist, old_x_hist, l, old_l, layer, W, b, Y, c, x_test, x, seed_perm, oracle,
                calls, evald, errs, snap, readout, last_epoch, save_simulation, overwrite,
                disk, store, globals, sparse, pair, rec>>

\* Network.__init__, lines 139-162: init_weights and init_layers
Construct ==
    /\ shapes.stage = "module"
    /\ shapes' = [shapes EXCEPT
                    !.stage = "constructed",
                    !.Y = init_Y_shapes(shapes.n, shapes.use_broadcast,
                                        shapes.use_weight_optimization),
                    !.c = init_c_shapes(shapes.n, shapes.use_broadcast,
                                        shapes.use_weight_optimization),
                    !.PSP_A_hist_rows = [m \in 1..(Len(shapes.n) - 1) |->
                                            b_input_size(shapes.n, m)]]
    /\ ShapesFrame

\* the first timestep's out_f: the hidden layers' update_A in the order of the
\* layers, until one raises
UpdateA ==
    /\ shapes.stage = "constructed"
    /\ shapes.updated < Len(shapes.n) - 1
    /\ shapes' = IF update_A_runs(shapes, shapes.updated + 1)
                 THEN [shapes EXCEPT !.updated = @ + 1]
                 ELSE [shapes EXCEPT !.stage = "raised"]
    /\ ShapesFrame

InitShapes ==
    /\ InitCommon
    /\ cfg = [use_rand_phase_lengths |-> TRUE, use_rand_burst_times |-> TRUE,
              update_backward_weights |-> FALSE]
    /\ seed_perm = [i \in TestSet |-> i]
    /\ oracle = [e \in TestSet |-> TRUE]
    /\ readout = NoReadout
    /\ disk = NoDirectory
    /\ globals = ModuleGlobals
    /\ sparse = NoSparse
    /\ \E sz \in LayerSizes, bc \in BOOLEAN, wo \in BOOLEAN :
          shapes = [NoShapes EXCEPT !.stage = "module", !.n = sz, !.use_broadcast = bc,
                                    !.use_weight_optimization = wo]
    /\ pair = NoPair
    /\ rec = NoRec

NextShapes ==
    \/ Construct
    \/ UpdateA

SpecShapes == InitShapes /\ [][NextShapes]_vars

\* ----------------------------------------------------------------------
\* two runs of train that take the same draws and differ in the targets
\* ----------------------------------------------------------------------

PairFrame ==
    UNCHANGED <<cfg, pc, caller, n_epochs, n_training_examples, k, n, time, testing, n_test,
                tn, num_correct, err_rate, l_f_phase, l_t_phase, old_l_f_phase, burst_times,
                x_hist, old_x_hist, l, old_l, layer, W, b, Y, c, x_test, x, seed_perm, oracle,
                calls, evald, errs, snap, readout, last_epoch, save_simulation, overwrite,
                disk, store, globals, sparse, shapes, rec>>

\* train lines 837-838: the example's data; the two runs are given the targets
\* ta and tb
PairExample(ta, tb) ==
    /\ pair.stage = "idle"
    /\ pair.ex < MaxPairExamples
    /\ pair' = [pair EXCEPT !.stage = "f", !.time = 0, !.t = <<ta, tb>>,
                            !.same = (pair.run[1] = pair.run[2])]
    /\ PairFrame

\* one iteration of the loop of f_phase (lines 425-433) in both runs
PairFStep ==
    /\ pair.stage = "f"
    /\ pair' = [pair EXCEPT
                  !.run = [r \in 1..2 |->
                             source_Network_out(pair.run[r], "f", pair.t[r],
                                                calc_averages(pair.time, min_l_f_phase),
                                                Stamp("train", pair.ex, "f", pair.time))],
                  !.time = IF pair.time + 1 < min_l_f_phase THEN @ + 1 ELSE @,
                  !.stage = IF pair.time + 1 < min_l_f_phase THEN "f" ELSE "f_ret"]
    /\ PairFrame

\* train lines 849-859: sel_num from average_C_f, then t_phase is entered
PairSelect ==
    /\ pair.stage = "f_ret"
    /\ pair' = [pair EXCEPT
                  !.run = [r \in 1..2 |->
                             [pair.run[r] EXCEPT !.sel_num = pair.run[r].fin.average_C_f]],
                  !.stage = "t", !.time = 0]
    /\ PairFrame

\* one iteration of the loop of t_phase (lines 472-491) in both runs, weights aside
PairTStep ==
    /\ pair.stage = "t"
    /\ pair' = [pair EXCEPT
                  !.run = [r \in 1..2 |->
                             source_Network_out(pair.run[r], "t", pair.t[r],
                                                calc_averages(pair.time, min_l_t_phase),
                                                Stamp("train", pair.ex, "t", pair.time))],
                  !.time = IF pair.time + 1 < min_l_t_phase THEN @ + 1 ELSE 0,
                  !.ex = IF pair.time + 1 < min_l_t_phase THEN @ ELSE @ + 1,
                  !.stage = IF pair.time + 1 < min_l_t_phase THEN "t" ELSE "idle"]
    /\ PairFrame

InitPair ==
    /\ InitCommon
    /\ cfg = [use_rand_phase_lengths |-> FALSE, use_rand_burst_times |-> FALSE,
              update_backward_weights |-> FALSE]
    /\ seed_perm = [i \in TestSet |-> i]
    /\ oracle = [e \in TestSet |-> TRUE]
    /\ readout = NoReadout
    /\ disk = NoDirectory
    /\ globals = ModuleGlobals
    /\ sparse = NoSparse
    /\ shapes = NoShapes
    /\ pair = [NoPair EXCEPT !.stage = "idle"]
    /\ rec = NoRec

NextPair ==
    \/ \E ta \in 0..(n_categories - 1), tb \in 0..(n_categories - 1) : PairExample(ta, tb)
    \/ PairFStep
    \/ PairSelect
    \/ PairTStep

SpecPair == InitPair /\ [][NextPair]_vars

\* ----------------------------------------------------------------------
\* train, example by example, with its recording arrays
\* ----------------------------------------------------------------------

RecFrame ==
    UNCHANGED <<cfg, pc, caller, n_epochs, n_training_examples, k, n, time, testing, n_test,
                tn, num_correct, err_rate, l_f_phase, l_t_phase, old_l_f_phase, burst_times,
                x_hist, old_x_hist, l, old_l, layer, W, b, Y, c, x_test, x, seed_perm, oracle,
                calls, evald, errs, snap, readout, last_epoch, save_simulation, overwrite,
                disk, store, globals, sparse, shapes, pair>>

\* train up to the loop over the epochs (lines 545-790): last_epoch is set,
\* a continued run that saves stops at np.load (see C29), the recording arrays
\* are made, and a new run takes the initial full test into slot 0 of both
\* arrays of errors and saves the initial weights and both arrays
RecTrain(ne, nx, save, le) ==
    /\ rec.stage = "made"
    /\ LET new  == le < 0
           t0   == TestOf("initial", 0, 0)
           full == zeros_of(IF new THEN ne + 1 ELSE ne, NoErr)
           qck  == zeros_of(ne * per_epoch(nx) + (IF new THEN 1 ELSE 0), NoErr)
       IN  rec' =
             IF save /\ ~new
             THEN [rec EXCEPT !.stage = "crashed", !.last_epoch = le, !.save_simulation = save]
             ELSE [rec EXCEPT
                    !.stage = "epoch",
                    !.last_epoch = le,
                    !.save_simulation = save,
                    !.n_epochs = ne,
                    !.n_training_examples = nx,
                    !.k = 0,
                    !.n = 0,
                    !.full_test_errs = IF new THEN put(full, 0, t0) ELSE full,
                    !.quick_test_errs = IF new THEN put(qck, 0, t0) ELSE qck,
                    !.training_labels = zeros_of(ne * nx, 0),
                    !.tests = IF new THEN <<t0>> ELSE <<>>,
                    !.saved = IF save
                              THEN [NoSaved EXCEPT !.full = put(full, 0, t0),
                                                   !.quick = put(qck, 0, t0),
                                                   !.initial_weights = TRUE]
                              ELSE NoSaved]
    /\ RecFrame

\* lines 802-812: the training data are shuffled for the epoch
RecEpoch(p) ==
    /\ rec.stage = "epoch"
    /\ rec' = [rec EXCEPT !.stage = "example", !.t_train = shuffle_arrays(@, p)]
    /\ RecFrame

\* lines 836-865: example n is taken, both phases run, t_phase leaves
\* self.t = t.repeat(n_neurons_per_category, axis=0), and the label is recorded
\* as np.dot(np.arange(10), self.t), which raises unless self.t has 10 rows
RecExample ==
    /\ rec.stage = "example"
    /\ LET tt   == one_hot(rec.t_train[rec.n + 1])
           rows == Cardinality(DOMAIN repeat(tt, rec.n_neurons_per_category))
       IN  rec' =
             IF rows # n_categories
             THEN [rec EXCEPT !.stage = "crashed", !.t_rows = rows]
             ELSE [rec EXCEPT
                    !.stage = "after",
                    !.t_rows = rows,
                    !.training_labels =
                        put(@, rec.k * rec.n_training_examples + rec.n, dot_arange(tt))]
    /\ RecFrame

\* lines 932-1081 and the ends of both loops: every 1000 examples a quick test
\* within the epoch, a full test at its last example, the error into the
\* arrays; at the last example the arrays and the epoch's weights are saved
RecAfter ==
    /\ rec.stage = "after"
    /\ LET nx    == rec.n_training_examples
           kk    == rec.k
           new   == rec.last_epoch < 0
           tests == (rec.n + 1) % QuickEvery = 0
           last  == rec.n = nx - 1
           err   == TestOf(IF last THEN "full" ELSE "quick", kk, rec.n)
           qslot == (kk + 1) * per_epoch(nx) - (IF new THEN 0 ELSE 1)
           full  == IF tests /\ last
                    THEN put(rec.full_test_errs, IF new THEN kk + 1 ELSE kk, err)
                    ELSE rec.full_test_errs
           qck   == IF tests THEN put(rec.quick_test_errs, qslot, err)
                    ELSE rec.quick_test_errs
           saves == tests /\ last /\ rec.save_simulation
       IN  rec' = [rec EXCEPT
                    !.full_test_errs = full,
                    !.quick_test_errs = qck,
                    !.tests = IF tests THEN Append(@, err) ELSE @,
                    !.saved = IF saves
                              THEN [@ EXCEPT
                                     !.full = upto(full, kk + 2),
                                     !.quick = upto(qck, (kk + 1) * per_epoch(nx) + 1),
                                     !.labels = upto(rec.training_labels, (kk + 1) * nx),
                                     !.epoch_weights = @ \cup {rec.last_epoch + 1 + kk}]
                              ELSE @,
                    !.n = IF last THEN 0 ELSE @ + 1,
                    !.k = IF last THEN @ + 1 ELSE @,
                    !.stage = IF ~last THEN "example"
                              ELSE IF kk + 1 < rec.n_epochs THEN "epoch" ELSE "done"]
    /\ RecFrame

\* Network(n) with n[-1] = 10*k for k in 1..MaxPerCategory
InitRecord ==
    /\ InitCommon
    /\ cfg = [use_rand_phase_lengths |-> TRUE, use_rand_burst_times |-> TRUE,
              update_backward_weights |-> FALSE]
    /\ seed_perm = [i \in TestSet |-> i]
    /\ oracle = [e \in TestSet |-> TRUE]
    /\ readout = NoReadout
    /\ disk = NoDirectory
    /\ globals = ModuleGlobals
    /\ sparse = NoSparse
    /\ shapes = NoShapes
    /\ pair = NoPair
    /\ \E kk \in 1..MaxPerCategory :
          rec = [NoRec EXCEPT !.stage = "made", !.n_neurons_per_category = kk]

NextRecord ==
    \/ \E ne \in 1..MaxRecEpochs, nx \in 1..MaxRecExamples, save \in BOOLEAN, le \in {-1, 0} :
          RecTrain(ne, nx, save, le)
    \/ \E p \in Shuffles : RecEpoch(p)
    \/ RecExample
    \/ RecAfter

SpecRecord == InitRecord /\ [][NextRecord]_vars

\* ----------------------------------------------------------------------
\* test_weights with the rates its timesteps pass to np.random.poisson
\* ----------------------------------------------------------------------

\* lines 427 and 1328/1465: np.random.poisson(x), then np.random.poisson(phi_C)
\* in every layer with the potentials this timestep computed
FStepRates(pot) ==
    /\ pc = "f"
    /\ readout.x_rates[x] >= 0
    /\ f_phase_step
    /\ UNCHANGED weights
    /\ readout' = [readout EXCEPT !.lam_x = readout.x_rates[x],
                                  !.lam_S = [m \in Layers |-> phi(pot[m])]]

\* np.random.poisson raises ValueError for a negative rate
PoissonRaises ==
    /\ pc = "f"
    /\ readout.x_rates[x] < 0
    /\ readout' = [readout EXCEPT !.lam_x = readout.x_rates[x]]
    /\ pc' = "crashed"
    /\ UNCHANGED <<sim_vars, cfg, caller, n_epochs, n_training_examples, k, n, time, testing,
                   n_test, tn, num_correct, err_rate, l_f_phase, l_t_phase, old_l_f_phase,
                   burst_times, x_hist, old_x_hist, l, old_l, layer, weights, x_test, x,
                   seed_perm, oracle, calls, evald, errs, snap>>

\* the test input is what the .npy files hold, times phi_max
InitRates ==
    /\ InitCommon
    /\ cfg = [use_rand_phase_lengths |-> TRUE, use_rand_burst_times |-> TRUE,
              update_backward_weights |-> FALSE]
    /\ seed_perm \in Perms(TestSet)
    /\ oracle = [e \in TestSet |-> TRUE]
    /\ disk = NoDirectory
    /\ shapes = NoShapes
    /\ pair = NoPair
    /\ rec = NoRec
    /\ globals = ModuleGlobals
    /\ sparse = NoSparse
    /\ \E v \in [TestSet -> InputValues] :
          readout = [NoReadout EXCEPT !.x_rates = [e \in TestSet |-> phi_max * v[e]],
                                      !.lam_S = [m \in Layers |-> 0]]

NextRates ==
    \/ \E nt \in {n_quick_test, n_full_test} : EvalOnce(nt)
    \/ TestBegin(seed_perm)
    \/ TestExample /\ UNCHANGED readout
    \/ \E pot \in [Layers -> SignedPotentials] : FStepRates(pot)
    \/ PoissonRaises
    \/ Classify(oracle[x]) /\ UNCHANGED readout
    \/ TestEnd

SpecRates == InitRates /\ [][NextRates]_vars

\* ----------------------------------------------------------------------
\* Properties
\* ----------------------------------------------------------------------
Last(h) == h[Len(h)]
Range(h) == {h[i] : i \in 1..Len(h)}

\* the index of the training example the loops are at
example_index == k*n_training_examples + n

\* every average accumulator assigned in the target phase is zero
TargetAvgsZero(L) ==
    /\ L.average_C_t = ZeroAvg
    /\ L.average_PSP_B_t = ZeroPSPAvg
    /\ L.kind = "hidden" => L.average_A_t = ZeroAvg
    /\ L.kind = "final" => L.average_phi_C_t = ZeroAvg
    /\ (L.kind = "hidden" /\ cfg.update_backward_weights) => L.average_PSP_A_t = ZeroPSPAvg

\* every average accumulator assigned in the forward phase is zero
ForwardAvgsZero(L) ==
    /\ L.average_C_f = ZeroAvg
    /\ L.average_PSP_B_f = ZeroPSPAvg
    /\ L.average_phi_C_f = ZeroAvg
    /\ L.kind = "hidden" => L.average_A_f = ZeroAvg
    /\ (L.kind = "hidden" /\ cfg.update_backward_weights) => L.average_PSP_A_f = ZeroPSPAvg

\* C1: within a training example the timesteps come in the order forward phase,
\* target phase, reset: a forward timestep follows the forward timestep before
\* it, the first target timestep follows the last forward timestep, a target
\* timestep follows the target timestep before it, the averages are reset only
\* after the last target timestep, and the first forward timestep of the next
\* example follows a target timestep of the example before it, with the target
\* averages reset.
C1_PhaseOrder ==
    [][ /\ (~testing /\ pc = "f" /\ time > 0)
            => Last(x_hist) = Stamp("train", example_index, "f", time - 1)
        /\ (~testing /\ pc = "f" /\ time = 0 /\ example_index > 0)
            => /\ Last(x_hist).run = "train"
               /\ Last(x_hist).ex = example_index - 1
               /\ Last(x_hist).ph = "t"
               /\ Last(x_hist).t + 1 >= min_l_t_phase
               /\ \A m \in Layers : TargetAvgsZero(layer[l[m]])
        /\ (pc = "t" /\ time = 0)
            => Last(x_hist) = Stamp("train", example_index, "f", l_f_phase - 1)
        /\ (pc = "t" /\ time > 0)
            => Last(x_hist) = Stamp("train", example_index, "t", time - 1)
        /\ (pc = "t_end" /\ pc' = "after")
            => /\ Last(x_hist) = Stamp("train", example_index, "t", l_t_phase - 1)
               /\ \A m \in Layers : TargetAvgsZero(layer'[l'[m]])
      ]_vars

\* a second training example's forward phase is under way
C1_Witness ==
    /\ ~testing
    /\ pc = "f"
    /\ n = 1
    /\ time = 1
    /\ Last(x_hist) = Stamp("train", example_index, "f", 0)

\* the rows of W and b have been written `times` times
Written(m, i, times) == W[m][i] = times /\ b[m][i] = times

\* C2 as stated: during one training example W and b are written at one moment
\* only, the end of the target phase, so that through the forward phase and
\* between any two target timesteps they are as they were at the example's start.
C2_Original ==
    (~testing /\ pc \in {"f", "f_ret", "t"})
        => \A m \in Layers : \A i \in Units(m) : Written(m, i, example_index)

\* C2: during one training example W and b are unchanged through the forward
\* phase and through the target timesteps before l_t_phase - 1 - MaxBurstDelay;
\* row i of W[m] and b[m] is written exactly once, at the end of the target
\* timestep that is unit i's burst time, one of the last MaxBurstDelay + 1
\* timesteps of the target phase, and that is the last timestep for every unit
\* when burst times are not random.
C2_BurstWrites ==
    \A m \in Layers : \A i \in Units(m) :
        /\ (~testing /\ pc \in {"f", "f_ret"}) => Written(m, i, example_index)
        /\ pc = "t" =>
              /\ burst_times[m][i] \in (l_t_phase - 1 - MaxBurstDelay)..(l_t_phase - 1)
              /\ ~cfg.use_rand_burst_times => burst_times[m][i] = l_t_phase - 1
              /\ Written(m, i, IF burst_times[m][i] < time
                               THEN example_index + 1 ELSE example_index)
        /\ pc = "t_end" => Written(m, i, example_index + 1)

\* between two target timesteps one output unit's row is written and the
\* other's is not yet
C2_Witness ==
    /\ pc = "t"
    /\ time = l_t_phase - 1
    /\ burst_times[M][1] = l_t_phase - 2
    /\ burst_times[M][2] = l_t_phase - 1
    /\ W[M][1] = example_index + 1
    /\ W[M][2] = example_index

\* C3: no step of f_phase and no step of test_weights changes W, b, Y or c,
\* whatever the state of the network and whatever n_test.
C3_ForwardReadOnly ==
    [][(pc \in {"f", "test", "test_ex", "test_end"} \/ (testing /\ pc = "f_ret"))
          => UNCHANGED weights]_vars

\* test_weights returns into the training loop with weights that training has
\* written, after forward phases of the training and of the test kind
C3_Witness ==
    /\ pc = "ret_loop"
    /\ \A m \in Layers : \A i \in Units(m) : W[m][i] > 0

\* the fields of the layers of self.l, by position
layers_now == [m \in 1..Len(l) |-> layer[l[m]]]
layers_then == [m \in 1..Len(l) |-> snap.layer[l[m]]]

\* C4 as stated: when test_weights returns, every layer's fields and the input
\* spike history are what they were when it was called.
C4_Original ==
    pc \in {"ret_init", "ret_loop"}
        => /\ layers_now = layers_then
           /\ x_hist = snap.x_hist

\* what does hold on return: the input history is the one of the call, and so
\* is the list self.l, whose objects the test examples have written
C4_Returned ==
    pc \in {"ret_init", "ret_loop"}
        => /\ x_hist = snap.x_hist
           /\ l = <<1, 2>>
           /\ \A m \in Layers :
                 /\ layers_now[m].C = Stamp("test", n_test - 1, "f", l_f_phase_test - 1)
                 /\ layers_now[m].C # layers_then[m].C

\* C5 as stated: two calls of test_weights with the same n_test on unchanged
\* weights, each from the same state of the random generator, evaluate the same
\* examples in the same order and return the same error rate.
C5_Original ==
    (calls = 2 /\ Len(evald[1]) = Len(evald[2]))
        => /\ evald[1] = evald[2]
           /\ errs[1] = errs[2]

\* the second call evaluates the test set as the first call's shuffle left it,
\* shuffled once more
C5_Reshuffled ==
    (calls = 2 /\ pc = "idle")
        => /\ x_test = shuffle_arrays(shuffle_arrays([i \in TestSet |-> i], seed_perm), seed_perm)
           /\ \A j \in 1..Len(evald[1]) : evald[1][j] = seed_perm[j]
           /\ \A j \in 1..Len(evald[2]) : evald[2][j] = seed_perm[seed_perm[j]]

\* a training example's forward phase is about to run its first timestep
forward_start == ~testing /\ pc = "f" /\ time = 0

\* test_weights has run since the previous training example's target phase
\* (since construction, for the first example)
test_ran_before_example ==
    IF example_index = 0 THEN TRUE
    ELSE (IF n > 0 THEN n ELSE n_training_examples) % QuickEvery = 0

\* the values a layer propagates with
LayerStamps(L) ==
    {L.B, L.C, L.phi_C} \cup Range(L.S_hist) \cup Range(L.C_hist) \cup Range(L.phi_C_hist)

from_previous_example(s) == s.run = "train" /\ s.ex = example_index - 1 /\ s.ph = "t"
from_test_example(s) == s.run = "test" /\ s.ph = "f"

\* C6 as stated: nothing but the weights is carried from one training example
\* to the next, so the potentials, spike histories, ring buffers and input
\* history a training example's forward phase starts with hold no value of an
\* earlier training example.
C6_Original ==
    forward_start
        => /\ \A s \in Range(x_hist) : s.run # "train"
           /\ \A m \in Layers : \A s \in LayerStamps(layer[l[m]]) : s.run # "train"

\* C6: besides the weights, a training example after the first starts its
\* forward phase with the input spike history left by the previous example's
\* target phase and with each layer's potentials, spike history, ring buffers
\* and integration counter as that target phase left them or, when test_weights
\* ran in between, as its last test example left them.
C6_CarriedState ==
    (forward_start /\ example_index > 0)
        => /\ \A s \in Range(x_hist) : from_previous_example(s)
           /\ \A m \in Layers :
                 IF test_ran_before_example
                 THEN \A s \in LayerStamps(layer[l[m]]) : from_test_example(s)
                 ELSE \A s \in LayerStamps(layer[l[m]]) : from_previous_example(s)

\* the second example's forward phase starts right after the first example's
\* target phase, no test in between
C6_Witness ==
    /\ forward_start
    /\ n = 1
    /\ ~test_ran_before_example
    /\ layer[l[M]].C.run = "train"

\* C7: right after the reset at the end of t_phase every average accumulator of
\* every layer is zero: average_C, average_PSP_B and average_phi_C of both
\* phases, the hidden layers' average_A and, when backward weights are updated,
\* average_PSP_A.
C7_ResetZero ==
    pc = "after"
        => \A m \in Layers : /\ ForwardAvgsZero(layer[l[m]])
                             /\ TargetAvgsZero(layer[l[m]])

\* the reset has just run on layers that went through both phases
C7_Witness ==
    /\ pc = "after"
    /\ \A m \in Layers : layer[l[m]].C = Stamp("train", example_index, "t", l_t_phase - 1)

\* the phase whose loop is running or has just ended, its length and the number
\* of its timesteps that are done
phase_now == IF pc \in {"f", "f_ret"} THEN "f" ELSE "t"
phase_len == IF phase_now = "f" THEN l_f_phase ELSE l_t_phase
steps_done == IF pc \in {"f_ret", "t_end"} THEN phase_len ELSE time

\* the stamp of timestep t of the phase
StampAt(t) ==
    IF testing THEN Stamp("test", tn, phase_now, t)
    ELSE Stamp("train", example_index, phase_now, t)

\* the timesteps after the settle duration phase_len - integration_time
post_settle == (phase_len - integration_time)..(phase_len - 1)

\* one contribution of each post-settle timestep: of the value computed at that
\* timestep, and of the PSP of the spike history as it is at that timestep
WindowAvg == {StampAt(t) : t \in post_settle}
WindowPSPAvg == {[i \in 1..mem |-> StampAt(t - mem + i)] : t \in post_settle}

\* C8: the averages a layer produces at the end of a forward or target phase of
\* length L are means over exactly the last integration_time timesteps of that
\* phase: one contribution of each of the timesteps L - integration_time .. L - 1
\* and of no timestep of an earlier phase or example, for fixed and for drawn
\* phase lengths.
C8_WindowAverages ==
    \A m \in Layers :
        LET L == layer[l[m]] IN
        /\ pc = "f_ret" =>
              /\ L.average_C_f = WindowAvg
              /\ L.average_phi_C_f = WindowAvg
              /\ L.average_PSP_B_f = WindowPSPAvg
              /\ L.kind = "hidden" => L.average_A_f = WindowAvg
              /\ Cardinality(L.average_C_f) = integration_time
              /\ Cardinality(L.average_PSP_B_f) = integration_time
        /\ pc = "t_end" =>
              /\ L.average_C_t = WindowAvg
              /\ L.average_PSP_B_t = WindowPSPAvg
              /\ L.kind = "hidden" => L.average_A_t = WindowAvg
              /\ L.kind = "final" => L.average_phi_C_t = WindowAvg
              /\ Cardinality(L.average_C_t) = integration_time
              /\ Cardinality(L.average_PSP_B_t) = integration_time

\* a target phase of a drawn length, longer than the minimum, of a second
\* example has produced its averages
C8_Witness ==
    /\ pc = "t_end"
    /\ n = 1
    /\ l_t_phase > min_l_t_phase
    /\ layer[l[1]].average_C_t = WindowAvg

phase_start == pc \in {"f", "t"} /\ time = 0

\* the forward averages are those a forward phase of the given run produced
ForwardAvgsOf(L, run) ==
    /\ L.average_C_f # ZeroAvg
    /\ \A s \in L.average_C_f \cup L.average_phi_C_f : s.run = run /\ s.ph = "f"
    /\ \A a \in L.average_PSP_B_f : \A s \in Range(a) : s.run = run /\ s.ph = "f"

SlidingWindow(hist) ==
    /\ Len(hist) = mem
    /\ \A j \in 0..(mem - 1) :
          j < steps_done => hist[mem - j] = StampAt(steps_done - 1 - j)
    /\ \A i \in 1..(mem - 1) :
          /\ hist[i + 1] = Z => hist[i] = Z
          /\ (hist[i] # Z /\ hist[i].run = hist[i + 1].run /\ hist[i].ex = hist[i + 1].ex
                /\ hist[i].ph = hist[i + 1].ph)
                => hist[i + 1].t = hist[i].t + 1
          /\ (hist[i] # Z /\ hist[i].run = hist[i + 1].run /\ hist[i].ex = hist[i + 1].ex
                /\ hist[i].ph # hist[i + 1].ph)
                => hist[i].ph = "f" /\ hist[i + 1].ph = "t" /\ hist[i + 1].t = 0

\* C10: after any number of timesteps every layer's S_hist and the input
\* history x_hist have exactly mem columns, the draws of the mem most recent
\* timesteps in chronological order, the newest last.
C10_SlidingWindow ==
    /\ x_hist # <<>> => Len(x_hist) = mem
    /\ \A m \in Layers : Len(layer[l[m]].S_hist) = mem
    /\ pc \in {"f", "f_ret", "t", "t_end"}
          => /\ SlidingWindow(x_hist)
             /\ \A m \in Layers : SlidingWindow(layer[l[m]].S_hist)

\* one timestep into a target phase the histories hold the last forward draw
\* and the first target draw
C10_Witness ==
    /\ pc = "t"
    /\ time = 1
    /\ x_hist = <<Stamp("train", example_index, "f", l_f_phase - 1),
                  Stamp("train", example_index, "t", 0)>>
    /\ layer[l[M]].S_hist = x_hist

\* a ring buffer the layer has is all zeros
RingZero(hist, zero) == hist = NoHist \/ \A i \in 1..Len(hist) : hist[i] = zero

\* C11 as stated: right after clear_vars has run on the layers for a test
\* example, every layer, hidden or final, has zero potentials, a zero spike
\* history, zero ring buffers (PSP, C, phi_C, A), zero averages and
\* integration counter 0.
C11_Original ==
    (testing /\ pc = "f" /\ time = 0)
        => \A m \in Layers :
              LET L == layer[l[m]] IN
              /\ L.A = Z /\ L.B = Z /\ L.C = Z /\ L.phi_C = Z
              /\ L.S_hist = ZeroHist(mem)
              /\ RingZero(L.A_hist, Z)
              /\ RingZero(L.C_hist, Z)
              /\ RingZero(L.phi_C_hist, Z)
              /\ RingZero(L.PSP_A_hist, ZP)
              /\ RingZero(L.PSP_B_hist, ZP)
              /\ ForwardAvgsZero(L)
              /\ TargetAvgsZero(L)
              /\ L.integration_counter = 0

\* what does hold after clear_vars: the hidden layer is all zero; the final
\* layer is zero but for PSP_B_hist, C_hist and phi_C_hist, which from the
\* second test example on hold the previous example's last timesteps
C11_Cleared ==
    (testing /\ pc = "f" /\ time = 0)
        => /\ LET L == layer[l[1]] IN
              /\ L.A = Z /\ L.B = Z /\ L.C = Z /\ L.phi_C = Z
              /\ L.S_hist = ZeroHist(mem)
              /\ RingZero(L.A_hist, Z) /\ RingZero(L.C_hist, Z) /\ RingZero(L.phi_C_hist, Z)
              /\ RingZero(L.PSP_A_hist, ZP) /\ RingZero(L.PSP_B_hist, ZP)
              /\ ForwardAvgsZero(L) /\ TargetAvgsZero(L)
              /\ L.integration_counter = 0
           /\ LET L == layer[l[M]] IN
              /\ L.B = Z /\ L.C = Z /\ L.phi_C = Z /\ L.I = Z
              /\ L.S_hist = ZeroHist(mem)
              /\ ForwardAvgsZero(L) /\ TargetAvgsZero(L)
              /\ L.integration_counter = 0
              /\ tn > 0 => \A s \in Range(L.C_hist) \cup Range(L.phi_C_hist) :
                              s.run = "test" /\ s.ex = tn - 1

RECURSIVE SetSum(_, _)
SetSum(f, S) == IF S = {} THEN 0
                ELSE LET j == CHOOSE j \in S : TRUE IN f[j] + SetSum(f, S \ {j})

\* the output units that the training target of category g sets to 1
GroupOf(g, kk) == {j \in OutUnits(kk) : repeat(one_hot(g), kk)[j] = 1}

\* the examples of the call classified so far that were counted correct
readout_correct == Cardinality({j \in 1..Len(readout.results) : readout.results[j]})

\* C12: with an output layer of n_categories*k units, test_weights predicts
\* for an example the category g whose k consecutive units g*k .. (g+1)*k - 1,
\* the units the training target of g sets, have the greatest mean average_C_f
\* (the first such g), counts the example correct iff g is the index of the 1
\* of its one-hot target, and returns 100*(1 - correct/n_test), within 0..100.
C12_Readout ==
    LET kk == readout.n_neurons_per_category
        g  == readout.sel_num
    IN  /\ g # -1 =>
              /\ g \in Categories
              /\ GroupOf(g, kk) = (g*kk)..((g + 1)*kk - 1)
              /\ \A h \in Categories :
                    /\ SetSum(readout.average_C_f, GroupOf(h, kk))
                          <= SetSum(readout.average_C_f, GroupOf(g, kk))
                    /\ h < g => SetSum(readout.average_C_f, GroupOf(h, kk))
                                   < SetSum(readout.average_C_f, GroupOf(g, kk))
              /\ readout.t[readout.target_num] = 1
              /\ readout.target_num = readout.labels[readout.x]
              /\ readout.results[Len(readout.results)] = (g = readout.labels[readout.x])
              /\ testing => num_correct = readout_correct
        /\ (readout # NoReadout /\ calls = 1) =>
              /\ Len(readout.results) = n_test
              /\ errs[1] * n_test = 100 * (n_test - readout_correct)
              /\ errs[1] \in 0..100

\* a call of two examples on two units per category returned 50: one example
\* was predicted as its label and the other, with a tie between groups, was not
C12_Witness ==
    /\ calls = 1
    /\ readout.n_neurons_per_category = 2
    /\ errs = <<50>>
    /\ readout.sel_num = 1
    /\ readout.labels[readout.x] = 2
    /\ readout.average_C_f = [j \in OutUnits(2) |-> IF j \in {1, 2, 3, 4, 5} THEN 1 ELSE 0]

\* C13: when train is called for a new run with save_simulation, without
\* overwrite, and the simulation directory exists, it returns at once: W, b, Y
\* and c, the layers and the test data are as before the call, no test and no
\* training example runs, and the directory and its files are untouched.
C13_AbortOnConflict ==
    [][ /\ (pc = "idle" /\ pc' # "idle" /\ disk.exists /\ save_simulation'
              /\ ~overwrite' /\ last_epoch' < 0)
          => /\ pc' = "returned"
             /\ UNCHANGED <<weights, disk, layer, l, x_test, testing, tn, k, n, calls>>
        /\ pc = "returned" => pc' = "returned"
      ]_vars

\* train has returned on the existing directory of an earlier run
C13_Witness ==
    /\ pc = "returned"
    /\ save_simulation
    /\ ~overwrite
    /\ last_epoch = -1
    /\ disk = OldDirectory

\* C14 as stated: every rate passed to the Poisson sampler, the input x pushed
\* into the input history and each layer's phi_C in spike, is >= 0.
C14_Original ==
    /\ readout.lam_x >= 0
    /\ \A m \in 1..Len(readout.lam_S) : readout.lam_S[m] >= 0

\* what does hold: a layer's rate is a value of phi, within 0..phi_max; the
\* input rate is the data entry as loaded
C14_LayerRates ==
    /\ \A m \in 1..Len(readout.lam_S) : readout.lam_S[m] \in 0..phi_max
    /\ readout.lam_x \in {0} \cup {readout.x_rates[e] : e \in 1..Len(readout.x_rates)}

\* C15: a target timestep changes exactly the rows of W[m] and b[m] of the units
\* whose burst time equals that timestep and leaves every other row as it was;
\* every burst time drawn for a target phase lies within its last
\* MaxBurstDelay + 1 timesteps, so that when the phase's loop ends every row has
\* been updated exactly once in this training example.
C15_BurstRowsOnly ==
    [][/\ pc = "t" =>
            \A m \in Layers : \A i \in Units(m) :
                LET inc == IF burst_times[m][i] = time THEN 1 ELSE 0
                IN  W'[m][i] = W[m][i] + inc /\ b'[m][i] = b[m][i] + inc
       /\ (pc = "f_ret" /\ pc' = "t") =>
            \A m \in Layers : \A i \in Units(m) :
                /\ burst_times'[m][i] \in (l_t_phase - 1 - MaxBurstDelay)..(l_t_phase - 1)
                /\ burst_times'[m][i] \in 0..(l_t_phase - 1)
                /\ W'[m][i] = example_index /\ b'[m][i] = example_index
       /\ (pc = "t" /\ pc' = "t_end") =>
            \A m \in Layers : \A i \in Units(m) :
                W'[m][i] = example_index + 1 /\ b'[m][i] = example_index + 1]_vars

\* the second training example's target loop has ended; the units of a layer
\* burst at different timesteps and every row has its two updates
C15_Witness ==
    /\ pc = "t_end"
    /\ example_index = 1
    /\ burst_times[M][1] < burst_times[M][2]
    /\ burst_times[1][1] < l_t_phase - 1
    /\ \A m \in Layers : \A i \in Units(m) : W[m][i] = 2 /\ b[m][i] = 2

\* C16: after save_weights on the training network and load_weights with the
\* same files on a freshly constructed network of the same layer sizes, W[m],
\* b[m], Y[m] and c[m] of the second network equal what the first network had
\* when it saved, for every layer m.
C16_WeightRoundTrip ==
    store.loaded =>
        \A w \in store.fresh : \A m \in Layers :
            /\ w.W[m] = np_load(store.files, "f_weights", m)
            /\ w.b[m] = np_load(store.files, "f_bias", m)
            /\ w.Y[m] = np_load(store.files, "b_weights", m)
            /\ w.c[m] = np_load(store.files, "b_bias", m)
            /\ pc = "done" /\ W[M][1] = np_load(store.files, "f_weights", M)[1].writes
                  => w.c[m] = net_weights.c[m] /\ w.W[M] = net_weights.W[M]

\* the network saved after training wrote its rows, and the second network has
\* loaded the files
C16_Witness ==
    /\ store.loaded
    /\ pc = "done"
    /\ \E f \in store.files : f.name = "f_weights" /\ f.m = 1 /\ f.data[1].writes > 0
    /\ \A w \in store.fresh : w.W[1][1].of = "A"

\* the manifest load_simulation has read
manifest == CHOOSE j \in globals.json : TRUE

\* C17 as stated: after load_simulation has read the manifest, every global in
\* effect equals the value stored under the same name in the manifest.
C17_Original ==
    (globals.loaded /\ globals.json # {}) =>
        \A name \in ParamNames : globals.now[name] = manifest[name]

\* what does hold: every global but P_hidden and noisy_symmetric_weights has
\* the manifest's value, P_hidden has the manifest's g_L, and
\* noisy_symmetric_weights is the loading module's
C17_LoadedGlobals ==
    (globals.loaded /\ globals.json # {}) =>
        /\ \A name \in ParamNames \ {"P_hidden", "noisy_symmetric_weights"} :
              globals.now[name] = manifest[name]
        /\ globals.now["P_hidden"] = manifest["g_L"]
        /\ globals.now["noisy_symmetric_weights"] = module_values["noisy_symmetric_weights"]

\* the entries of Y[0] are zero at the network's dropout indices and 5 times
\* their un-sparsified value elsewhere, and the indices number floor(0.8*size)
SparseMask ==
    /\ Cardinality(sparse.Y_dropout_indices) = n_dropout
    /\ \A i \in YEntries :
          IF i \in sparse.Y_dropout_indices
          THEN sparse.Y[i] = entry("zero", 0)
          ELSE sparse.Y[i].base # "zero" /\ sparse.Y[i].times5 = 1

\* the entries of an array that are zero
zeros(Yf) == {i \in DOMAIN Yf : Yf[i] = entry("zero", 0)}

\* C18 as stated: with sparse feedback, after initialisation and after every
\* completed training example every entry of Y[m] at a dropout index is zero
\* and every other entry is 5 times its un-sparsified value, the indices being
\* those of the whole run, the run's earlier part before load_simulation
\* included.
C18_Original ==
    (globals.now.use_sparse_feedback /\ (pc = "after" \/ (pc = "idle" /\ ~globals.loaded)))
        => /\ SparseMask
           /\ globals.loaded => zeros(sparse.Y) = zeros(sparse.saved)

\* what does hold: the same for a network that was constructed and not loaded
\* into
C18_Constructed ==
    (globals.now.use_sparse_feedback /\ ~globals.loaded /\ pc \in {"idle", "after"})
        => SparseMask

\* the ring-buffer column a layer writes at the timestep it has counted `ic`
\* timesteps before
slot(ic) == (ic % integration_time) + 1

\* the column a layer wrote at its latest timestep
latest_slot(L) == slot(L.integration_counter + integration_time - 1)

\* C20: a timestep of a forward or target phase first pushes the input sample
\* of that timestep onto the input history and then updates layer 0 and layer 1
\* in that order: layer 0's forward input is the input history with that
\* sample, its feedback input is the output layer's spike history from before
\* the output layer's update, and the output layer's forward input is layer 0's
\* spike history already holding layer 0's draw of the same timestep.
C20_LayerOrder ==
    [][(pc \in {"f", "t"}) =>
          LET hid  == layer[l[1]]
              fin  == layer[l[2]]
              hid1 == layer'[l[1]]
              fin1 == layer'[l[2]]
          IN  /\ Last(x_hist') = Now(pc)
              /\ hid1.PSP_B_hist[slot(hid.integration_counter)] = x_hist'
              /\ hid1.PSP_A_hist[slot(hid.integration_counter)] = fin.S_hist
              /\ Last(hid1.S_hist) = Now(pc)
              /\ fin1.PSP_B_hist[slot(fin.integration_counter)] = hid1.S_hist
              /\ Last(fin1.S_hist) = Now(pc)
              /\ Last(fin.S_hist) # Now(pc)]_vars

\* the second timestep of a training example's target phase is done: the
\* output layer's latest forward input is layer 0's history ending with layer
\* 0's draw of that timestep
C20_Witness ==
    /\ ~testing
    /\ pc = "t"
    /\ time = 2
    /\ Last(x_hist) = Stamp("train", example_index, "t", 1)
    /\ Last(layer[l[1]].S_hist) = Stamp("train", example_index, "t", 1)
    /\ layer[l[2]].PSP_B_hist[latest_slot(layer[l[2]])] = layer[l[1]].S_hist

\* C21 as stated: the feedback input the hidden layer consumes at a timestep is
\* the output layer's spike history with the output layer's draw of that same
\* timestep.
C21_Original ==
    [][(pc \in {"f", "t"}) =>
          layer'[l[1]].PSP_A_hist[slot(layer[l[1]].integration_counter)]
              = layer'[l[2]].S_hist]_vars

\* C21: the feedback input the hidden layer consumes at a timestep is the
\* output layer's spike history as it is before the output layer's update of
\* that timestep: its newest column is the output layer's draw of the previous
\* timestep of the phase or, at the first timestep of a target phase, of the
\* last timestep of the example's forward phase; the draw of the same timestep
\* is not in it.
C21_FeedbackDelayed ==
    [][(pc \in {"f", "t"}) =>
          LET fb == layer'[l[1]].PSP_A_hist[slot(layer[l[1]].integration_counter)]
          IN  /\ fb = layer[l[2]].S_hist
              /\ \A i \in 1..Len(fb) : fb[i] # Now(pc)
              /\ Last(layer'[l[2]].S_hist) = Now(pc)
              /\ time > 0 => Last(fb) = StampAt(time - 1)
              /\ (pc = "t" /\ time = 0)
                    => Last(fb) = Stamp("train", example_index, "f", l_f_phase - 1)]_vars

\* two target timesteps are done: the hidden layer's latest feedback input ends
\* with the output layer's draw of the first, the output layer's history with
\* its draw of the second
C21_Witness ==
    /\ ~testing
    /\ pc = "t"
    /\ time = 2
    /\ Last(layer[l[1]].PSP_A_hist[latest_slot(layer[l[1]])])
          = Stamp("train", example_index, "t", 0)
    /\ Last(layer[l[2]].S_hist) = Stamp("train", example_index, "t", 1)

\* C22 as stated: with update_backward_weights a target timestep's update_Y
\* changes rows of Y[m] of bursting units only, and at a timestep where no unit
\* of the hidden layer bursts it changes nothing and raises no error.
C22_Original ==
    [][(pc = "t" /\ cfg.update_backward_weights) =>
          /\ pc' # "crashed"
          /\ \A m \in 1..(M-1) :
                burst_indices_at(burst_times[m], time) = {} => Y'[m] = Y[m]]_vars

\* what does hold: update_Y raises at every target timestep at which the number
\* of bursting hidden units is neither one nor all, the first timestep of the
\* phase among them, and Y is as it was
C22_UpdateYRaises ==
    [][(pc = "t" /\ cfg.update_backward_weights) =>
          /\ time = 0
          /\ burst_indices_at(burst_times[1], time) = {}
          /\ pc' = "crashed"
          /\ Y' = Y]_vars

\* C23 as stated: for every hidden layer m, every number of layers >= 2 and
\* both settings of use_broadcast, Y[m] has n[m] rows and as many columns as the
\* feedback source has neurons, c[m] has n[m] rows, the feedback PSP buffer has
\* as many rows as the feedback source, and A = Y*PSP + c is made with n[m]
\* entries.
C23_Original ==
    /\ shapes.stage # "raised"
    /\ shapes.stage = "constructed" =>
          \A m \in 1..(Len(shapes.n) - 1) :
              LET src == feedback_source(shapes.n, shapes.use_broadcast, m)
              IN  /\ shapes.Y[m] = Shape(shapes.n[m], src)
                  /\ shapes.c[m].rows = shapes.n[m]
                  /\ shapes.PSP_A_hist_rows[m] = src

\* what does hold: Y[m] has those dimensions; the feedback PSP buffer has
\* n[m+1] rows, the source's only without broadcast or for the last hidden
\* layer; c[m] has n[m] rows with broadcast and n[m+1] rows without
C23_Shapes ==
    shapes.stage \in {"constructed", "raised"} =>
        \A m \in 1..(Len(shapes.n) - 1) :
            /\ shapes.Y[m] = Shape(shapes.n[m],
                                   feedback_source(shapes.n, shapes.use_broadcast, m))
            /\ shapes.PSP_A_hist_rows[m] = shapes.n[m + 1]
            /\ shapes.c[m].rows = IF shapes.use_broadcast THEN shapes.n[m]
                                  ELSE shapes.n[m + 1]

\* C24: the statistic update_W uses for a unit at its burst time (the mean of
\* phi_C_hist in the output layer, of A_hist in a hidden layer) is an average
\* over target-phase timesteps of the current example only: the burst time is
\* at least integration_time - 1, and the buffer then holds one value of each
\* of the integration_time target timesteps up to the burst time, for fixed
\* and for drawn phase lengths and burst times.
C24_TargetWindowOnly ==
    [][pc = "t" =>
          \A m \in Layers : \A i \in W_rows_written(m, time) :
              /\ burst_times[m][i] >= integration_time - 1
              /\ update_W_statistic(layer'[l[m]]) =
                    {Stamp("train", example_index, "t", u) :
                        u \in (time - integration_time + 1)..time}]_vars

\* the hidden unit has just burst at the earliest time a drawn phase length
\* longer than the minimum allows, and A_hist holds target timesteps only
C24_Witness ==
    /\ pc = "t"
    /\ l_t_phase > min_l_t_phase
    /\ burst_times[1][1] = l_t_phase - 1 - MaxBurstDelay
    /\ time = burst_times[1][1] + 1
    /\ W[1][1] = example_index + 1
    /\ update_W_statistic(layer[l[1]]) =
          {Stamp("train", example_index, "t", u) : u \in (time - integration_time)..(time - 1)}

\* C25: the target never influences a forward phase.  Two runs that enter an
\* example in the same state and take the same draws but are given different
\* targets have, at every timestep of the forward phase and after it, the same
\* potentials, histories, averages and predicted class, and the output layer's
\* injected current is zero from the first forward timestep on.
C25_TargetBlind ==
    (pair.same /\ pair.stage \in {"f", "f_ret", "t"} /\ (pair.stage = "t" => pair.time = 0)) =>
        /\ pair.stage # "t" => pair.run[1] = pair.run[2]
        /\ pair.stage = "t" => pair.run[1].sel_num = pair.run[2].sel_num
        /\ (pair.stage = "f_ret" \/ (pair.stage = "f" /\ pair.time > 0)) =>
              \A r \in 1..2 : pair.run[r].fin.I = {}

\* the forward phase of the second example is over in two runs whose targets
\* differ; the first example, with one target for both, left a current in the
\* output layer that the forward phase has zeroed
C25_Witness ==
    /\ pair.stage = "f_ret"
    /\ pair.same
    /\ pair.ex = 1
    /\ pair.t[1] # pair.t[2]
    /\ pair.run[1].fin.average_C_f # {}
    /\ TargetSource(0) \subseteq pair.run[1].fin.C \/ TargetSource(1) \subseteq pair.run[1].fin.C

\* C26: within one call of test_weights, the output layer's average somatic
\* potential read at the end of a test example's forward phase holds no value
\* written while an earlier test example (or a training example) was
\* processed: every contribution is of a forward timestep of this test example.
C26_TestReadFresh ==
    (testing /\ pc = "f_ret") =>
        /\ layer[l[M]].average_C_f # ZeroAvg
        /\ \A s \in layer[l[M]].average_C_f :
              s.run = "test" /\ s.ex = tn /\ s.ph = "f"

\* the forward phase of the second test example of a call is over and the
\* output layer's average is about to be read
C26_Witness ==
    /\ testing
    /\ pc = "f_ret"
    /\ tn = 1
    /\ Cardinality(layer[l[M]].average_C_f) = integration_time
    /\ \A s \in Range(layer[l[M]].C_hist) : s.ex = 1

\* the recordings an earlier run has saved
earlier_recordings ==
    {File("full_test_errors.npy", "earlier"), File("quick_test_errors.npy", "earlier")}

\* C29 as stated: a call of train that continues a simulation (last_epoch >= 0,
\* save_simulation on, the directory exists) preserves the recordings already
\* saved: it loads the earlier arrays, and what it saves is the earlier
\* recordings followed by the new ones.
C29_Original ==
    [][(pc = "idle" /\ pc' # "idle" /\ disk.exists /\ earlier_recordings \subseteq disk.files
          /\ save_simulation' /\ last_epoch' >= 0)
          => /\ pc' # "crashed"
             /\ earlier_recordings \subseteq disk'.files]_vars

\* what the code does: the continued run removes the directory with all of
\* its files, makes it anew with the script alone, and stops at the first
\* np.load
C29_DirectoryRemoved ==
    [][(pc = "idle" /\ pc' # "idle" /\ disk.exists /\ save_simulation' /\ last_epoch' >= 0)
          => /\ pc' = "crashed"
             /\ disk' = make_directory]_vars

\* train is in or past its loops
rec_running == rec.stage \in {"epoch", "example", "after", "done"}

\* the slot of full_test_errs for epoch j
full_slot(j) == IF rec.last_epoch < 0 THEN j + 1 ELSE j

\* C27 as stated: for every epoch k and every n_training_examples >= 1, after
\* the last training example of the epoch a full test is run, its error is
\* stored in full_test_errs (slot k+1 in a new run) and, when saving, the
\* epoch's weights are saved.
C27_Original ==
    rec_running =>
        \A j \in 0..(rec.k - 1) :
            LET e == TestOf("full", j, rec.n_training_examples - 1)
            IN  /\ e \in Range(rec.tests)
                /\ rec.full_test_errs[full_slot(j) + 1] = e
                /\ rec.save_simulation => (rec.last_epoch + 1 + j) \in rec.saved.epoch_weights

\* what the code does: the full test, its recording and the saving happen at
\* the end of an epoch when n_training_examples is a multiple of 1000; else no
\* test is run for the epoch, its slot stays zero and nothing is saved
C27_MultiplesOnly ==
    rec_running =>
        \A j \in 0..(rec.k - 1) :
            LET e == TestOf("full", j, rec.n_training_examples - 1)
            IN  IF rec.n_training_examples % QuickEvery = 0
                THEN /\ e \in Range(rec.tests)
                     /\ rec.full_test_errs[full_slot(j) + 1] = e
                     /\ rec.save_simulation =>
                           (rec.last_epoch + 1 + j) \in rec.saved.epoch_weights
                ELSE /\ e \notin Range(rec.tests)
                     /\ rec.full_test_errs[full_slot(j) + 1] = NoErr
                     /\ rec.saved.epoch_weights = {}

\* the position of a test among the calls of test_weights
test_order(e) == CHOOSE i \in 1..Len(rec.tests) : rec.tests[i] = e

\* C28 as stated: in a new run every quick test stores its error in its own
\* slot of quick_test_errs, in chronological order after the initial test in
\* slot 0: no slot is written twice (no quick test's error is overwritten) and
\* no slot between 0 and the last written one is left at zero.
C28_Original ==
    (rec_running /\ rec.last_epoch < 0) =>
        LET q       == rec.quick_test_errs
            filled == {i \in 1..Len(q) : q[i] # NoErr}
        IN  /\ q[1] = TestOf("initial", 0, 0)
            /\ \A e \in Range(rec.tests) : e.kind = "quick" => \E i \in filled : q[i] = e
            /\ \A i, j \in filled : i < j => test_order(q[i]) < test_order(q[j])
            /\ \A i \in 1..Len(q) : (\E j \in filled : i < j) => i \in filled

\* what the code does: every test of epoch j, quick or full, writes the one
\* slot (j+1)*int(n_training_examples/1000), which holds the latest of them;
\* the slots between stay zero
C28_OneSlotPerEpoch ==
    (rec_running /\ rec.last_epoch < 0) =>
        LET q  == rec.quick_test_errs
            pe == per_epoch(rec.n_training_examples)
        IN  \A i \in 2..Len(q) :
                IF pe > 0 /\ (i - 1) % pe = 0
                THEN q[i] # NoErr =>
                        /\ q[i].k = ((i - 1) \div pe) - 1
                        /\ \A e \in Range(rec.tests) :
                              (e.kind # "initial" /\ e.k = q[i].k) => e.n <= q[i].n
                ELSE q[i] = NoErr

\* C30 as stated: for every output layer size 10*k, k >= 1, each training
\* example completes both phases and its recording, and the training label
\* recorded equals the class index of the example's one-hot target.
C30_Original ==
    /\ ~(rec.stage = "crashed" /\ rec.t_rows # 0)
    /\ rec.stage = "after" =>
          rec.training_labels[rec.k * rec.n_training_examples + rec.n + 1]
              = rec.t_train[rec.n + 1]

\* what the code does: with 10 output units the label is recorded as claimed;
\* with 10*k units, k >= 2, self.t has 10*k rows after t_phase and the first
\* example's recording raises
C30_TenUnitsOnly ==
    /\ rec.n_neurons_per_category = 1 =>
          /\ ~(rec.stage = "crashed" /\ rec.t_rows # 0)
          /\ rec.stage = "after" =>
                rec.training_labels[rec.k * rec.n_training_examples + rec.n + 1]
                    = rec.t_train[rec.n + 1]
    /\ rec.n_neurons_per_category > 1 =>
          /\ rec.stage \notin {"after", "done"}
          /\ rec.stage \in {"example", "crashed"} => rec.k = 0 /\ rec.n = 0
          /\ rec.stage = "crashed" /\ rec.t_rows # 0 =>
                rec.t_rows = n_categories * rec.n_neurons_per_category

====
